---- MODULE Spec2Model ----
(***************************************************************************)
(* Branch-merge orchestration of the asset service: the merge_jobs /       *)
(* branch_merges / merge_conflicts tables, the API handlers of             *)
(* services/asset_service/app/main.py that create and update them, the     *)
(* dispatcher of merge_worker.py and the executor of tasks.py.             *)
(*                                                                         *)
(* The store is PostgreSQL at READ COMMITTED (database.py opens every       *)
(* connection with autocommit=False): a statement reads the rows committed *)
(* when it starts plus the writes of its own unit of work; an UPDATE locks *)
(* the rows it changes until commit or rollback, and an UPDATE that meets  *)
(* a locked row waits and then re-evaluates its WHERE clause on the newly  *)
(* committed row.  jobs, merges and conflicts hold the committed rows;     *)
(* the writes of a unit of work in flight live in the record of the        *)
(* process that runs it.                                                   *)
(***************************************************************************)
EXTENDS Integers, Sequences, FiniteSets, TLC

\* ------------------------------------------------------------------ bounds
MaxMerges == 1
MaxJobs == 3
MaxConflicts == 1
NumWorkers == 2
MaxRequests == 3
MaxChangelists == 1
MaxVersions == 2
MaxClock == 5
MaxAssets == 1
MaxShelves == 1
MaxLockEvents == 3
\* units of work that use the connection pool, and the connections of the pool
MaxUnits == 3
PoolSize == 2
\* concurrent callers of create_changelist
MaxCallers == 2

MergeIds == 1..MaxMerges
JobIds == 1..MaxJobs
ConflictIds == 1..MaxConflicts
Workers == 1..NumWorkers
ChangelistIds == 1..MaxChangelists
AssetVersionIds == 1..MaxVersions
AssetIds == 1..MaxAssets
ShelfIds == 1..MaxShelves
Units == 1..MaxUnits
Conns == 1..PoolSize
Callers == 1..MaxCallers

\* ------------------------------------------------------------- vocabulary
NULL == "null"

MERGE_JOB_STATUSES == {"queued", "running", "staged", "completed", "failed"}
MERGE_JOB_TYPES == {"auto_integrate", "conflict_staging", "submit_gate"}
MERGE_STATUSES == {"pending", "merged", "conflicted", "cancelled"}

\* column defaults of the tables (the DDL is not part of the sources)
DefaultMergeStatus == "pending"
DefaultJobStatus == "queued"
DefaultSubmitGatePassed == FALSE

\* NOW() of a unit of work, named after the side that runs it
ApiNow == "api"
ExecNow == "exec"
Stamps == {NULL, ApiNow, ExecNow}

\* the log lines the executor writes, and the text an API caller supplies
LogIntegrate == "Executing automated integration pipeline"
LogDetected == "Detected unresolved conflicts during auto integrate"
LogClean == "Integration completed without conflicts"
LogGate == "Running submit gate validation"
LogNoop == "No-op handler; marking staged"
LogApi == "operator supplied text"

\* a table slot without a row
NoMerge == [status |-> "absent", completed_at |-> NULL, project_id |-> 0,
            source_branch_id |-> 0, target_branch_id |-> 0]
NoJob == [merge |-> 0, job_type |-> "none", status |-> "absent", passed |-> FALSE,
          logs |-> <<>>, started_at |-> NULL, completed_at |-> NULL]
NoConflict == [merge |-> 0, resolved |-> FALSE]

COALESCE(a, b) == IF a # NULL THEN a ELSE b

VARIABLES
    merges,      \* branch_merges: committed rows
    jobs,        \* merge_jobs: committed rows
    conflicts,   \* merge_conflicts: committed rows
    queue,       \* job ids handed to the dispatcher and not yet taken by a worker
    workers,     \* one executor run per worker
    op,          \* the caller of update_branch_merge
    req,         \* the caller of create_branch_merge / create_merge_job / update_merge_job
    resp,        \* the result most recently returned: an HTTP status of an API
                 \* handler, or skipped / completed / raised of run_merge_job
    nreq,        \* API requests issued so far
    runs         \* history, per job id: wrote = commits that wrote status queued,
                 \* queued = those of them that found another status before,
                 \* sent = hand-offs to the dispatcher, done = executor runs committed,
                 \* skipped = executor runs that returned skipped
VARIABLES
    changelists,       \* changelists: committed rows
    changelist_items,  \* changelist_items: per changelist, its committed rows
    clock,             \* NOW() of the changelist handlers
    submit_before      \* history: the row the last successful submit found
VARIABLES
    shelves,           \* shelves: committed rows
    asset_locks,       \* asset_locks: committed rows
    lock_history       \* history: per asset, the successful lock and release requests

VARIABLES
    pool,                \* the pooled connections
    units,               \* the units of work: API operations and executor runs
    observed,            \* history: the statements of the units and the identity each ran under
    AUTOMATION_USER_ID   \* MERGE_AUTOMATION_USER_ID of the workers' environment

VARIABLES
    DISABLE_AUTOMATION   \* DISABLE_MERGE_AUTOMATION of the API's environment: inline dispatch
VARIABLES
    callers              \* concurrent callers of create_changelist, each between its
                         \* checks and its INSERT

lockvars == <<asset_locks, lock_history>>
idvars == <<pool, units, observed, AUTOMATION_USER_ID>>
clvars == <<changelists, changelist_items, clock, submit_before, shelves, lockvars, idvars,
            DISABLE_AUTOMATION, callers>>
vars == <<merges, jobs, conflicts, queue, workers, op, req, resp, nreq, runs, clvars>>
db == <<merges, jobs, conflicts>>

IdleWorker == [pc |-> "idle", job |-> 0, merge |-> 0, job_type |-> "none",
               unresolved |-> 0, failing |-> FALSE, finalize |-> FALSE,
               row |-> NoJob, before |-> NoJob, mrow |-> NoMerge, mlock |-> FALSE]
IdleOp == [pc |-> "idle", merge |-> 0, status |-> NULL, completed |-> NULL,
           gated |-> FALSE, gate_jobs |-> 0]
IdleReq == [pc |-> "idle", kind |-> "none", merge |-> 0, mrow |-> NoMerge,
            rows |-> [j \in JobIds |-> NoJob], touched |-> {}, toq |-> <<>>]
NoResp == "none"
\* a changelist's branch id and timestamps are numbers: 0 stands for SQL NULL
NoBranch == 0
NoStamp == 0
NoShelf == [workspace_id |-> 0, asset_version_id |-> 0, changelist_id |-> 0, created_by |-> 0,
            created_at |-> NoStamp]
NoChangelist == [status |-> "absent", project_id |-> 0, workspace_id |-> 0,
                 target_branch_id |-> NoBranch,
                 submitted_at |-> NoStamp, submitter_notes |-> NULL, updated_at |-> NoStamp]

\* app.current_user_id when nothing is set, and the holder of a free connection
NoUser == 0
NoUnit == 0
IdleCaller == [pc |-> "idle", project_id |-> 0, workspace_id |-> 0, target_branch_id |-> 0,
               shelf_id |-> 0, changelist_id |-> 0, desired_status |-> NULL,
               submitter_notes |-> NULL]
FreeConn == [holder |-> NoUnit, session |-> NoUser, local |-> <<>>, history |-> {}]
DoneUnit == [kind |-> "operation", user |-> NoUser, pc |-> "done", conn |-> 0]
\* no unit of work in progress
IdentityIdle ==
    /\ pool = [c \in Conns |-> FreeConn]
    /\ units = [u \in Units |-> DoneUnit]
    /\ observed = {}
    /\ AUTOMATION_USER_ID = NoUser
    /\ callers = [p \in Callers |-> IdleCaller]

\* no row in any table, nothing queued, nobody at work
EmptyStore ==
    /\ merges = [m \in MergeIds |-> NoMerge]
    /\ jobs = [j \in JobIds |-> NoJob]
    /\ conflicts = [c \in ConflictIds |-> NoConflict]
    /\ queue = [j \in JobIds |-> 0]
    /\ workers = [w \in Workers |-> IdleWorker]
    /\ op = IdleOp
    /\ req = IdleReq
    /\ resp = NoResp
    /\ nreq = 0
    /\ runs = [j \in JobIds |-> [wrote |-> 0, queued |-> 0, sent |-> 0, done |-> 0,
                                  skipped |-> 0]]
    /\ changelists = [c \in ChangelistIds |-> NoChangelist]
    /\ changelist_items = [c \in ChangelistIds |-> {}]
    /\ clock = 0
    /\ submit_before = NoChangelist
    /\ shelves = [s \in ShelfIds |-> NoShelf]
    /\ asset_locks = {}
    /\ lock_history = [a \in AssetIds |-> <<>>]
    /\ IdentityIdle

Init == EmptyStore /\ DISABLE_AUTOMATION = FALSE

\* ------------------------------------------------------------- row locks
\* a job row is locked by the unit of work that has updated it and not yet ended
JobLockedByWorker(j) == \E w \in Workers : workers[w].pc # "idle" /\ workers[w].job = j
JobLockedByReq(j) == req.pc = "commit" /\ req.kind = "update_job" /\ j \in req.touched
JobLocked(j) == JobLockedByWorker(j) \/ JobLockedByReq(j)
MergeLockedByOther(w, m) ==
    \E v \in Workers \ {w} : workers[v].mlock /\ workers[v].merge = m
MergeLocked(m) == \E v \in Workers : workers[v].mlock /\ workers[v].merge = m


\* ------------------------------------------------------- executor (tasks.py)
_append_log(row, message) == [row EXCEPT !.logs = Append(@, message)]

\* an UPDATE of _complete_job that leaves out submit_gate_passed = %s
_complete_job_without_flag(row, status, submit_gate_passed) ==
    [row EXCEPT !.status = status,
                !.completed_at = COALESCE(@, ExecNow),
                !.started_at = COALESCE(@, ExecNow)]

\* the UPDATE of _complete_job on the run's own job row
_complete_job(row, status, submit_gate_passed) ==
    [row EXCEPT !.status = status,
                !.completed_at = COALESCE(@, ExecNow),
                !.passed = IF submit_gate_passed # NULL THEN submit_gate_passed = "true" ELSE @,
                !.started_at = COALESCE(@, ExecNow)]

\* the merge_jobs rows a statement of worker w reads: committed rows and its own write
JobsSeenBy(w) == [j \in JobIds |-> IF j = workers[w].job THEN workers[w].row ELSE jobs[j]]

\* the branch_merges row a statement of worker w reads or updates
MergeSeenBy(w) == IF workers[w].mlock THEN workers[w].mrow ELSE merges[workers[w].merge]

\* a decision that leaves out the submit_gate_passed test
ShouldFinalizeNoGate(rows, m) ==
    LET mine == {j \in JobIds : rows[j].merge = m}
    IN mine # {} /\ \A j \in mine : rows[j].status = "completed"

\* the decision of _maybe_finalize_branch_merge over the rows it selected
ShouldFinalize(rows, m) ==
    LET mine == {j \in JobIds : rows[j].merge = m}
        all_completed == \A j \in mine : rows[j].status = "completed"
        submit_gate_ok == \A j \in mine : rows[j].job_type = "submit_gate" => rows[j].passed
    IN mine # {} /\ all_completed /\ submit_gate_ok

\* a count that leaves out AND resolved_at IS NULL
CountAllConflicts(m) == Cardinality({c \in ConflictIds : conflicts[c].merge = m})

\* SELECT COUNT(*) FROM merge_conflicts WHERE branch_merge_id = %s AND resolved_at IS NULL
UnresolvedCount(m) ==
    Cardinality({c \in ConflictIds : conflicts[c].merge = m /\ ~conflicts[c].resolved})

\* a first UPDATE that also takes a completed job
CasAppliesToCompleted(j) == jobs[j].status \in {"queued", "completed"}

\* a first UPDATE that leaves out AND status = 'queued'
CasAnyStatus(j) == jobs[j].status # "absent"

\* a first UPDATE that matches no row
CasNeverApplies(j) == FALSE

\* WHERE id = %s AND status = 'queued' of the executor's first UPDATE
CasApplies(j) == jobs[j].status = "queued"

\* run_merge_job, first statement: the conditional UPDATE queued -> running.  It
\* waits while another unit of work holds the row; a run it does not apply to
\* commits nothing and returns skipped.
ExecStart(w, j) ==
    /\ workers[w].pc = "idle"
    /\ \A v \in Workers : v < w => workers[v].pc # "idle"   \* idle workers are interchangeable
    /\ queue[j] > 0
    /\ ~JobLocked(j)
    /\ queue' = [queue EXCEPT ![j] = @ - 1]
    /\ IF CasApplies(j)
       THEN /\ workers' = [workers EXCEPT ![w] =
                   [IdleWorker EXCEPT !.pc = "handler", !.job = j,
                        !.merge = jobs[j].merge, !.job_type = jobs[j].job_type,
                        !.before = jobs[j],
                        !.row = [jobs[j] EXCEPT !.status = "running",
                                                !.started_at = COALESCE(@, ExecNow)]]]
            /\ UNCHANGED <<resp, runs>>
       ELSE /\ resp' = "skipped"
            /\ runs' = [runs EXCEPT ![j].skipped = @ + 1]
            /\ UNCHANGED workers
    /\ UNCHANGED <<merges, jobs, conflicts, op, req, nreq, clvars>>

\* run_merge_job called with an id that is in no row of merge_jobs (a task message
\* that names no job): the UPDATE matches nothing, the run commits and returns skipped
ExecUnknown(w, j) ==
    /\ workers[w].pc = "idle"
    /\ \A v \in Workers : v < w => workers[v].pc # "idle"
    /\ jobs[j].status = "absent"
    /\ ~CasApplies(j)
    /\ resp' = "skipped"
    /\ UNCHANGED <<merges, jobs, conflicts, queue, workers, op, req, nreq, runs, clvars>>

\* the job-type branch up to the UPDATE of _complete_job
ExecHandler(w) ==
    LET me == workers[w]
        n == UnresolvedCount(me.merge)
    IN
    /\ me.pc = "handler"
    /\ workers' = [workers EXCEPT ![w] =
         IF me.job_type = "auto_integrate"
         THEN IF n > 0
              THEN [me EXCEPT !.pc = "react", !.unresolved = n, !.failing = TRUE,
                       !.row = _complete_job(
                                   _append_log(_append_log(@, LogIntegrate), LogDetected),
                                   "failed", NULL)]
              ELSE [me EXCEPT !.pc = "react",
                       !.row = _complete_job(
                                   _append_log(_append_log(@, LogIntegrate), LogClean),
                                   "completed", NULL)]
         ELSE IF me.job_type = "submit_gate"
         THEN [me EXCEPT !.pc = "react",
                  !.row = _complete_job(_append_log(@, LogGate), "completed", "true")]
         ELSE [me EXCEPT !.pc = "react",
                  !.row = _complete_job(_append_log(@, LogNoop), "completed", NULL)]]
    /\ UNCHANGED <<merges, jobs, conflicts, queue, op, req, resp, nreq, runs, clvars>>

\* _maybe_finalize_branch_merge: the SELECT over the merge's jobs and the decision
ExecReact(w) ==
    LET me == workers[w]
        fin == ShouldFinalize(JobsSeenBy(w), me.merge)
    IN
    /\ me.pc = "react"
    /\ workers' = [workers EXCEPT ![w] =
         [me EXCEPT !.finalize = fin,
                    !.pc = IF fin THEN "finalize"
                           ELSE IF me.failing THEN "conflict" ELSE "commit"]]
    /\ UNCHANGED <<merges, jobs, conflicts, queue, op, req, resp, nreq, runs, clvars>>

\* SET status = 'merged', completed_at = COALESCE(completed_at, NOW())
FinalizedRow(row) == [row EXCEPT !.status = "merged", !.completed_at = COALESCE(@, ExecNow)]

\* a merge UPDATE that leaves out AND status <> 'cancelled'
AnyMergeRow(row) == row.status # "absent"

\* WHERE id = %s AND status <> 'cancelled' of the executor's two merge UPDATEs
NotCancelled(row) == row.status # "absent" /\ row.status # "cancelled"

\* _maybe_finalize_branch_merge: the UPDATE to merged
ExecFinalize(w) ==
    LET me == workers[w]
        cur == MergeSeenBy(w)
    IN
    /\ me.pc = "finalize"
    /\ ~MergeLockedByOther(w, me.merge)
    /\ workers' = [workers EXCEPT ![w] =
         IF NotCancelled(cur)
         THEN [me EXCEPT !.mrow = FinalizedRow(cur), !.mlock = TRUE,
                         !.pc = IF me.failing THEN "conflict" ELSE "commit"]
         ELSE [me EXCEPT !.pc = IF me.failing THEN "conflict" ELSE "commit"]]
    /\ UNCHANGED <<merges, jobs, conflicts, queue, op, req, resp, nreq, runs, clvars>>

\* _fail_job: the UPDATE to conflicted
ExecConflict(w) ==
    LET me == workers[w]
        cur == MergeSeenBy(w)
    IN
    /\ me.pc = "conflict"
    /\ ~MergeLockedByOther(w, me.merge)
    /\ workers' = [workers EXCEPT ![w] =
         IF NotCancelled(cur)
         THEN [me EXCEPT !.mrow = [cur EXCEPT !.status = "conflicted"], !.mlock = TRUE,
                         !.pc = "commit"]
         ELSE [me EXCEPT !.pc = "commit"]]
    /\ UNCHANGED <<merges, jobs, conflicts, queue, op, req, resp, nreq, runs, clvars>>

\* conn.commit(): the run's writes become the committed rows, its locks are released
ExecCommit(w) ==
    LET me == workers[w] IN
    /\ me.pc = "commit"
    /\ jobs' = [jobs EXCEPT ![me.job] = me.row]
    /\ merges' = IF me.mlock THEN [merges EXCEPT ![me.merge] = me.mrow] ELSE merges
    /\ workers' = [workers EXCEPT ![w] = IdleWorker]
    /\ resp' = "completed"
    /\ runs' = [runs EXCEPT ![me.job].done = @ + 1]
    /\ UNCHANGED <<conflicts, queue, op, req, nreq, clvars>>

\* a handler without conn.rollback(): the writes of the run stay
KeptAfterRaise(committed, written) == written

\* a first UPDATE committed on its own: the rollback undoes the rest, the job stays running
RolledBackToRunning(committed, written) ==
    IF "job_type" \in DOMAIN committed
    THEN [committed EXCEPT !.status = "running", !.started_at = COALESCE(@, ExecNow)]
    ELSE committed

\* what conn.rollback() leaves of the run's job row and merge row in the store
RolledBack(committed, written) == committed

\* except Exception: conn.rollback(); raise -- a statement of the handler or of
\* the completion reaction fails
ExecRaise(w) ==
    LET me == workers[w] IN
    /\ me.pc \in {"handler", "react", "finalize", "conflict", "commit"}
    /\ jobs' = [jobs EXCEPT ![me.job] = RolledBack(@, me.row)]
    /\ merges' = IF me.mlock THEN [merges EXCEPT ![me.merge] = RolledBack(@, me.mrow)]
                 ELSE merges
    /\ workers' = [workers EXCEPT ![w] = IdleWorker]
    /\ resp' = "raised"
    /\ UNCHANGED <<conflicts, queue, op, req, nreq, runs, clvars>>


\* ------------------------------------------- update_branch_merge (main.py)
\* a check that does not return early for a merge without submit_gate jobs
_enforce_submit_gate_always(m) ==
    LET mine == {j \in JobIds : jobs[j].merge = m}
        gate_passes == Cardinality({j \in mine : jobs[j].passed /\ jobs[j].status = "completed"})
        outstanding == Cardinality({j \in mine : jobs[j].status \in {"queued", "running", "staged"}})
    IN IF gate_passes = 0 THEN "409"
       ELSE IF outstanding > 0 THEN "409"
       ELSE IF UnresolvedCount(m) > 0 THEN "409"
       ELSE "ok"

\* a check that leaves out the outstanding-jobs test
_enforce_submit_gate_passes_only(m) ==
    LET mine == {j \in JobIds : jobs[j].merge = m}
        gate_jobs == Cardinality({j \in mine : jobs[j].job_type = "submit_gate"})
        gate_passes == Cardinality({j \in mine : jobs[j].passed /\ jobs[j].status = "completed"})
    IN IF gate_jobs = 0 THEN "ok"
       ELSE IF gate_passes = 0 THEN "409"
       ELSE IF UnresolvedCount(m) > 0 THEN "409"
       ELSE "ok"

\* gate_jobs of _enforce_submit_gate: the first count it takes
GateJobCount(m) ==
    Cardinality({j \in JobIds : jobs[j].merge = m /\ jobs[j].job_type = "submit_gate"})

\* _enforce_submit_gate over the committed rows: "ok", or "409" for the HTTPException
_enforce_submit_gate(m) ==
    LET mine == {j \in JobIds : jobs[j].merge = m}
        gate_jobs == Cardinality({j \in mine : jobs[j].job_type = "submit_gate"})
        gate_passes == Cardinality({j \in mine : jobs[j].passed /\ jobs[j].status = "completed"})
        outstanding == Cardinality({j \in mine : jobs[j].status \in {"queued", "running", "staged"}})
        unresolved == UnresolvedCount(m)
    IN IF gate_jobs = 0 THEN "ok"
       ELSE IF gate_passes = 0 THEN "409"
       ELSE IF outstanding > 0 THEN "409"
       ELSE IF unresolved > 0 THEN "409"
       ELSE "ok"

\* the request bodies of update_branch_merge that are tried
TriState == {NULL, "true", "false"}
MergeUpdateInputs ==
    {<<"merged", NULL>>, <<NULL, "true">>, <<"cancelled", NULL>>,
     <<"conflicted", NULL>>, <<"merged", "false">>, <<"archived", NULL>>,
     <<NULL, NULL>>}

\* a handler that asks for the check on status merged only
needs_submit_gate_status_only(st, cp) == st = "merged"

needs_submit_gate(st, cp) == st = "merged" \/ cp = "true"

\* the SET clauses of update_branch_merge applied to a row
UpdatedMergeRow(row, st, cp) ==
    [row EXCEPT !.status = IF st # NULL THEN st ELSE @,
                !.completed_at = IF cp = "true" THEN ApiNow
                                 ELSE IF cp = "false" THEN NULL
                                 ELSE IF st = "merged" THEN ApiNow
                                 ELSE @]

\* update_branch_merge up to and including the submit-gate check
OpUpdateMerge(m, st, cp) ==
    /\ op.pc = "idle"
    /\ nreq < MaxRequests
    /\ nreq' = nreq + 1
    /\ IF st # NULL /\ st \notin MERGE_STATUSES
       THEN /\ resp' = "400"
            /\ UNCHANGED op
       ELSE IF st = NULL /\ cp = NULL
       THEN /\ resp' = "400"
            /\ UNCHANGED op
       ELSE IF needs_submit_gate(st, cp) /\ _enforce_submit_gate(m) = "409"
       THEN /\ resp' = "409"
            /\ UNCHANGED op
       ELSE /\ op' = [pc |-> "write", merge |-> m, status |-> st, completed |-> cp,
                      gated |-> needs_submit_gate(st, cp),
                      gate_jobs |-> IF needs_submit_gate(st, cp) THEN GateJobCount(m) ELSE 0]
            /\ UNCHANGED resp
    /\ UNCHANGED <<merges, jobs, conflicts, queue, workers, req, runs, clvars>>

\* update_branch_merge: the UPDATE ... WHERE id = %s RETURNING and the commit
OpWrite ==
    /\ op.pc = "write"
    /\ ~MergeLocked(op.merge)
    /\ IF merges[op.merge].status = "absent"
       THEN /\ resp' = "404"
            /\ UNCHANGED merges
       ELSE /\ merges' = [merges EXCEPT ![op.merge] = UpdatedMergeRow(@, op.status, op.completed)]
            /\ resp' = "200"
    /\ op' = IdleOp
    /\ UNCHANGED <<jobs, conflicts, queue, workers, req, nreq, runs, clvars>>


\* ------------------- create_branch_merge, create_merge_job, update_merge_job
\* the branches table: branch id -> project id (a fixed fixture; 0 = no such branch)
BranchProject(b) == CASE b = 1 -> 1 [] b = 2 -> 1 [] b = 3 -> 2 [] OTHER -> 0

FreeMergeIds == {m \in MergeIds : merges[m].status = "absent"}
FreeJobIds == {j \in JobIds : jobs[j].status = "absent"}
FreeConflictIds == {c \in ConflictIds : conflicts[c].merge = 0}

Min(S) == CHOOSE x \in S : \A y \in S : x <= y

\* the k smallest elements of S, ascending
RECURSIVE Lowest(_, _)
Lowest(S, k) == IF k = 0 \/ S = {} THEN <<>> ELSE <<Min(S)>> \o Lowest(S \ {Min(S)}, k - 1)

\* INSERT INTO merge_jobs (branch_merge_id, job_type [, status])
NewJob(m, job_type, status) ==
    [merge |-> m, job_type |-> job_type, status |-> status,
     passed |-> DefaultSubmitGatePassed,
     logs |-> <<>>, started_at |-> NULL, completed_at |-> NULL]

\* a create_branch_merge that gives the conflict_staging job no explicit status
SeededJobsAllDefault(m, auto_integrate, stage_conflicts, requires_submit_gate) ==
    (IF auto_integrate THEN <<NewJob(m, "auto_integrate", DefaultJobStatus)>> ELSE <<>>)
    \o (IF stage_conflicts THEN <<NewJob(m, "conflict_staging", DefaultJobStatus)>> ELSE <<>>)
    \o (IF requires_submit_gate THEN <<NewJob(m, "submit_gate", DefaultJobStatus)>> ELSE <<>>)

\* the jobs create_branch_merge inserts for its flags, in insertion order
SeededJobs(m, auto_integrate, stage_conflicts, requires_submit_gate) ==
    (IF auto_integrate THEN <<NewJob(m, "auto_integrate", DefaultJobStatus)>> ELSE <<>>)
    \o (IF stage_conflicts THEN <<NewJob(m, "conflict_staging", "staged")>> ELSE <<>>)
    \o (IF requires_submit_gate THEN <<NewJob(m, "submit_gate", DefaultJobStatus)>> ELSE <<>>)

\* queued_job_ids: the ids of the rows inserted without an explicit status
QueuedIds(ids, rows) ==
    SelectSeq(ids, LAMBDA j : \E i \in 1..Len(ids) : ids[i] = j /\ rows[i].job_type # "conflict_staging")

\* create_branch_merge up to conn.commit()
\* a create_branch_merge that tests nothing
MergeCreateUnchecked(project, source, target) == "none"

\* the tests of create_branch_merge on its payload: the answer, or none
MergeCreateError(project, source, target) ==
    IF source = target THEN "400"
    ELSE IF BranchProject(source) = 0 \/ BranchProject(target) = 0 THEN "404"
    ELSE IF BranchProject(source) # project \/ BranchProject(target) # project THEN "400"
    ELSE "none"

ReqCreateMerge(project, source, target, auto_integrate, stage_conflicts, requires_submit_gate) ==
    LET seeded == SeededJobs(Min(FreeMergeIds), auto_integrate, stage_conflicts, requires_submit_gate)
        ids == Lowest(FreeJobIds, Len(seeded))
    IN
    /\ req.pc = "idle"
    /\ nreq < MaxRequests
    /\ nreq' = nreq + 1
    /\ IF MergeCreateError(project, source, target) # "none"
       THEN /\ resp' = MergeCreateError(project, source, target)
            /\ UNCHANGED req
       ELSE /\ FreeMergeIds # {}
            /\ Cardinality(FreeJobIds) >= Len(seeded)
            /\ req' = [pc |-> "commit", kind |-> "create_branch_merge",
                       merge |-> Min(FreeMergeIds),
                       mrow |-> [status |-> DefaultMergeStatus, completed_at |-> NULL,
                                 project_id |-> project, source_branch_id |-> source,
                                 target_branch_id |-> target],
                       rows |-> [j \in JobIds |->
                                   IF \E i \in 1..Len(ids) : ids[i] = j
                                   THEN seeded[CHOOSE i \in 1..Len(ids) : ids[i] = j]
                                   ELSE NoJob],
                       touched |-> {ids[i] : i \in 1..Len(ids)},
                       toq |-> QueuedIds(ids, seeded)]
            /\ UNCHANGED resp
    /\ UNCHANGED <<merges, jobs, conflicts, queue, workers, op, runs, clvars>>

\* the request bodies of create_merge_job and update_merge_job that are tried
\* <<project_id, source_branch_id, target_branch_id, auto_integrate, stage_conflicts,
\* requires_submit_gate>> of create_branch_merge
MergeCreateInputs ==
    {<<1, 1, 2, ai, sc, sg>> : ai \in BOOLEAN, sc \in BOOLEAN, sg \in BOOLEAN}
    \cup {<<1, 2, 1, FALSE, FALSE, FALSE>>, <<2, 3, 3, TRUE, FALSE, TRUE>>,
          <<2, 1, 2, TRUE, FALSE, TRUE>>}
    \cup {<<1, 1, 1, TRUE, FALSE, TRUE>>, <<1, 1, 4, TRUE, FALSE, TRUE>>,
          <<1, 4, 2, TRUE, FALSE, TRUE>>, <<1, 1, 3, TRUE, FALSE, TRUE>>}
\* <<job_type, status, submit_gate_passed, logs>> of create_merge_job
JobCreateInputs ==
    {<<"submit_gate", NULL, NULL, NULL>>, <<"submit_gate", "completed", "true", NULL>>,
     <<"auto_integrate", "completed", NULL, NULL>>, <<"cleanup", NULL, NULL, NULL>>,
     <<"submit_gate", "paused", NULL, NULL>>, <<"conflict_staging", "staged", NULL, NULL>>,
     <<"auto_integrate", "completed", "true", NULL>>}
\* <<status, submit_gate_passed, logs>> of update_merge_job
JobUpdateInputs ==
    {<<"queued", NULL, NULL>>, <<"completed", NULL, NULL>>, <<"paused", NULL, NULL>>,
     <<NULL, NULL, NULL>>, <<NULL, NULL, LogApi>>, <<NULL, "true", NULL>>}

\* a create_merge_job that stores the payload's submit_gate_passed for any job type
CreatedJobWithPayloadFlag(m, job_type, st, pg, lg) ==
    LET job_status == IF st # NULL THEN st ELSE "queued" IN
    [merge |-> m, job_type |-> job_type, status |-> job_status,
     passed |-> pg = "true",
     logs |-> IF lg # NULL THEN <<lg>> ELSE <<>>,
     started_at |-> IF job_status \in {"running", "staged", "completed", "failed"}
                    THEN ApiNow ELSE NULL,
     completed_at |-> IF job_status \in {"completed", "failed"} THEN ApiNow ELSE NULL]

\* the row create_merge_job inserts
CreatedJob(m, job_type, st, pg, lg) ==
    LET job_status == IF st # NULL THEN st ELSE "queued" IN
    [merge |-> m, job_type |-> job_type, status |-> job_status,
     passed |-> IF job_type = "submit_gate" THEN pg = "true" ELSE FALSE,
     logs |-> IF lg # NULL THEN <<lg>> ELSE <<>>,
     started_at |-> IF job_status \in {"running", "staged", "completed", "failed"}
                    THEN ApiNow ELSE NULL,
     completed_at |-> IF job_status \in {"completed", "failed"} THEN ApiNow ELSE NULL]

\* create_merge_job up to conn.commit()
ReqCreateJob(m, job_type, st, pg, lg) ==
    LET id == Min(FreeJobIds) IN
    /\ req.pc = "idle"
    /\ nreq < MaxRequests
    /\ nreq' = nreq + 1
    /\ IF job_type \notin MERGE_JOB_TYPES
       THEN /\ resp' = "400"
            /\ UNCHANGED req
       ELSE IF st # NULL /\ st \notin MERGE_JOB_STATUSES
       THEN /\ resp' = "400"
            /\ UNCHANGED req
       ELSE IF merges[m].status = "absent"
       THEN /\ resp' = "404"
            /\ UNCHANGED req
       ELSE /\ FreeJobIds # {}
            /\ req' = [pc |-> "commit", kind |-> "create_merge_job", merge |-> 0,
                       mrow |-> NoMerge,
                       rows |-> [j \in JobIds |->
                                   IF j = id THEN CreatedJob(m, job_type, st, pg, lg)
                                   ELSE NoJob],
                       touched |-> {id},
                       toq |-> IF st = NULL \/ st = "queued" THEN <<id>> ELSE <<>>]
            /\ UNCHANGED resp
    /\ UNCHANGED <<merges, jobs, conflicts, queue, workers, op, runs, clvars>>

\* the SET clauses of update_merge_job applied to a row
UpdatedJobRow(row, st, pg, lg) ==
    [row EXCEPT !.status = IF st # NULL THEN st ELSE @,
                !.passed = IF pg # NULL THEN pg = "true" ELSE @,
                !.logs = IF lg # NULL THEN <<lg>> ELSE @,
                !.started_at = IF st \in {"running", "staged", "completed", "failed"}
                               THEN COALESCE(@, ApiNow) ELSE @,
                !.completed_at = IF st \in {"completed", "failed"} THEN ApiNow ELSE @]

\* update_merge_job up to conn.commit(); its UPDATE waits for a run that holds the row
ReqUpdateJob(j, st, pg, lg) ==
    /\ req.pc = "idle"
    /\ nreq < MaxRequests
    /\ nreq' = nreq + 1
    /\ IF st # NULL /\ st \notin MERGE_JOB_STATUSES
       THEN /\ resp' = "400"
            /\ UNCHANGED req
       ELSE IF st = NULL /\ pg = NULL /\ lg = NULL
       THEN /\ resp' = "400"
            /\ UNCHANGED req
       ELSE IF jobs[j].status = "absent"
       THEN /\ resp' = "404"
            /\ UNCHANGED req
       ELSE IF pg = "true" /\ jobs[j].job_type # "submit_gate"
       THEN /\ resp' = "400"
            /\ UNCHANGED req
       ELSE /\ ~JobLockedByWorker(j)
            /\ req' = [pc |-> "commit", kind |-> "update_job", merge |-> 0,
                       mrow |-> NoMerge,
                       rows |-> [k \in JobIds |->
                                   IF k = j THEN UpdatedJobRow(jobs[j], st, pg, lg)
                                   ELSE NoJob],
                       touched |-> {j},
                       toq |-> IF st = "queued" THEN <<j>> ELSE <<>>]
            /\ UNCHANGED resp
    /\ UNCHANGED <<merges, jobs, conflicts, queue, workers, op, runs, clvars>>

\* a handler that enqueues before its conn.commit()
MayDispatchBeforeCommit == req.pc \in {"commit", "dispatch"}

\* job ids may be handed to the dispatcher: the handler is past its conn.commit()
MayDispatch == req.pc = "dispatch"

\* conn.commit() of the three handlers
ReqCommit ==
    /\ req.pc = "commit"
    /\ merges' = IF req.kind = "create_branch_merge"
                 THEN [merges EXCEPT ![req.merge] = req.mrow] ELSE merges
    /\ jobs' = [j \in JobIds |-> IF j \in req.touched THEN req.rows[j] ELSE jobs[j]]
    /\ runs' = [j \in JobIds |->
                 IF j \in req.touched /\ req.rows[j].status = "queued"
                 THEN [runs[j] EXCEPT !.wrote = @ + 1,
                                      !.queued = IF jobs[j].status # "queued" THEN @ + 1 ELSE @]
                 ELSE runs[j]]
    /\ IF req.toq = <<>>
       THEN /\ req' = IdleReq
            /\ resp' = "200"
       ELSE /\ req' = [req EXCEPT !.pc = "dispatch"]
            /\ UNCHANGED resp
    /\ UNCHANGED <<conflicts, queue, workers, op, nreq, clvars>>

\* except Exception: conn.rollback(); raise HTTPException(500) -- nothing is enqueued
ReqFail ==
    /\ req.pc = "commit"
    /\ req' = IdleReq
    /\ resp' = "500"
    /\ UNCHANGED <<merges, jobs, conflicts, queue, workers, op, nreq, runs, clvars>>

\* enqueue_merge_job with the worker pool enabled: execute_merge_job.apply_async
\* (enqueue_many calls it once per id); after the last id the handler returns
ReqDispatch ==
    /\ MayDispatch
    /\ req.toq # <<>>
    /\ queue' = [queue EXCEPT ![Head(req.toq)] = @ + 1]
    /\ IF Len(req.toq) = 1
       THEN /\ req' = IdleReq
            /\ resp' = "200"
       ELSE /\ req' = [req EXCEPT !.toq = Tail(@)]
            /\ UNCHANGED resp
    /\ runs' = [runs EXCEPT ![Head(req.toq)].sent = @ + 1]
    /\ UNCHANGED <<merges, jobs, conflicts, workers, op, nreq, clvars>>

\* enqueue_merge_job raises (apply_async cannot reach the broker): the exception
\* leaves the handler, which is past its try block and its conn.commit()
ReqDispatchFail ==
    /\ MayDispatch
    /\ req.toq # <<>>
    /\ req' = IdleReq
    /\ resp' = "500"
    /\ UNCHANGED <<merges, jobs, conflicts, queue, workers, op, nreq, runs, clvars>>

\* ------------------------------- create_merge_conflict, update_merge_conflict
\* a create_merge_conflict that also marks the merge conflicted
create_merge_conflict_marking(m) ==
    /\ nreq < MaxRequests
    /\ nreq' = nreq + 1
    /\ merges[m].status # "absent"
    /\ FreeConflictIds # {}
    /\ conflicts' = [conflicts EXCEPT ![Min(FreeConflictIds)] =
                        [merge |-> m, resolved |-> FALSE]]
    /\ merges' = [merges EXCEPT ![m].status = "conflicted"]
    /\ resp' = "200"
    /\ UNCHANGED <<jobs, queue, workers, op, req, runs, clvars>>

create_merge_conflict(m) ==
    /\ nreq < MaxRequests
    /\ nreq' = nreq + 1
    /\ IF merges[m].status = "absent"
       THEN /\ resp' = "404"
            /\ UNCHANGED conflicts
       ELSE /\ FreeConflictIds # {}
            /\ conflicts' = [conflicts EXCEPT ![Min(FreeConflictIds)] =
                                [merge |-> m, resolved |-> FALSE]]
            /\ resp' = "200"
    /\ UNCHANGED <<merges, jobs, queue, workers, op, req, runs, clvars>>

update_merge_conflict(c, resolved) ==
    /\ nreq < MaxRequests
    /\ nreq' = nreq + 1
    /\ IF resolved = NULL
       THEN /\ resp' = "400"
            /\ UNCHANGED conflicts
       ELSE IF conflicts[c].merge = 0
       THEN /\ resp' = "404"
            /\ UNCHANGED conflicts
       ELSE /\ conflicts' = [conflicts EXCEPT ![c].resolved = (resolved = "true")]
            /\ resp' = "200"
    /\ UNCHANGED <<merges, jobs, queue, workers, op, req, runs, clvars>>

\* ------------------------------------------------------------ specification
Next ==
    \/ \E w \in Workers, j \in JobIds : ExecStart(w, j)
    \/ \E w \in Workers, j \in JobIds : ExecUnknown(w, j)
    \/ \E w \in Workers : ExecHandler(w)
    \/ \E w \in Workers : ExecReact(w)
    \/ \E w \in Workers : ExecFinalize(w)
    \/ \E w \in Workers : ExecConflict(w)
    \/ \E w \in Workers : ExecCommit(w)
    \/ \E w \in Workers : ExecRaise(w)
    \/ \E m \in MergeIds, u \in MergeUpdateInputs : OpUpdateMerge(m, u[1], u[2])
    \/ OpWrite
    \/ \E c \in MergeCreateInputs :
          ReqCreateMerge(c[1], c[2], c[3], c[4], c[5], c[6])
    \/ \E m \in MergeIds, c \in JobCreateInputs : ReqCreateJob(m, c[1], c[2], c[3], c[4])
    \/ \E j \in JobIds, u \in JobUpdateInputs : ReqUpdateJob(j, u[1], u[2], u[3])
    \/ ReqCommit
    \/ ReqFail
    \/ ReqDispatch
    \/ ReqDispatchFail
    \/ \E m \in MergeIds : create_merge_conflict(m)
    \/ \E c \in ConflictIds, r \in TriState : update_merge_conflict(c, r)

Spec == Init /\ [][Next]_vars

\* ---------------------------------------------------- inline dispatch mode
\* enqueue_merge_job with DISABLE_MERGE_AUTOMATION set: the handler calls
\* run_merge_job itself and waits for it; the run is the one of the executor
InlineCall ==
    /\ MayDispatch
    /\ req.toq # <<>>
    /\ \A w \in Workers : workers[w].pc = "idle"
    /\ queue' = [queue EXCEPT ![Head(req.toq)] = @ + 1]
    /\ req' = [req EXCEPT !.pc = "inline"]
    /\ resp' = NoResp
    /\ runs' = [runs EXCEPT ![Head(req.toq)].sent = @ + 1]
    /\ UNCHANGED <<merges, jobs, conflicts, workers, op, nreq, clvars>>

\* run_merge_job returned: enqueue_many goes on to the next id, or the handler
\* returns its response
InlineReturn ==
    /\ req.pc = "inline"
    /\ resp \in {"completed", "skipped"}
    /\ IF Len(req.toq) = 1
       THEN /\ req' = IdleReq
            /\ resp' = "200"
       ELSE /\ req' = [req EXCEPT !.toq = Tail(@), !.pc = "dispatch"]
            /\ UNCHANGED resp
    /\ UNCHANGED <<merges, jobs, conflicts, queue, workers, op, nreq, runs, clvars>>

\* run_merge_job raised: the exception passes through enqueue_many and leaves
\* the handler; the ids that follow are not run
InlineRaised ==
    /\ req.pc = "inline"
    /\ resp = "raised"
    /\ req' = IdleReq
    /\ resp' = "500"
    /\ UNCHANGED <<merges, jobs, conflicts, queue, workers, op, nreq, runs, clvars>>

\* API requests one after the other, each dispatching inline
InlineNext ==
    \/ \E c \in MergeCreateInputs :
          ReqCreateMerge(c[1], c[2], c[3], c[4], c[5], c[6])
    \/ \E m \in MergeIds, c \in JobCreateInputs : ReqCreateJob(m, c[1], c[2], c[3], c[4])
    \/ \E j \in JobIds, u \in JobUpdateInputs : ReqUpdateJob(j, u[1], u[2], u[3])
    \/ ReqCommit
    \/ ReqFail
    \/ req.pc = "idle" /\ \E m \in MergeIds : create_merge_conflict(m)
    \/ req.pc = "idle" /\ \E c \in ConflictIds, r \in TriState : update_merge_conflict(c, r)
    \/ InlineCall
    \/ \E w \in Workers, j \in JobIds : ExecStart(w, j)
    \/ \E w \in Workers : ExecHandler(w)
    \/ \E w \in Workers : ExecReact(w)
    \/ \E w \in Workers : ExecFinalize(w)
    \/ \E w \in Workers : ExecConflict(w)
    \/ \E w \in Workers : ExecCommit(w)
    \/ \E w \in Workers : ExecRaise(w)
    \/ InlineReturn
    \/ InlineRaised

InlineInit == EmptyStore /\ DISABLE_AUTOMATION = TRUE

InlineSpec == InlineInit /\ [][InlineNext]_vars

\* ---------------------------------------------------- fair runs that never raise
\* either mode of the dispatcher, fixed by the environment when the API starts
FairInit == EmptyStore /\ DISABLE_AUTOMATION \in BOOLEAN

\* the requests that create or re-queue jobs and conflicts, the dispatcher and
\* the executor; no run_merge_job raises
FairNext ==
    \/ \E c \in MergeCreateInputs :
          ReqCreateMerge(c[1], c[2], c[3], c[4], c[5], c[6])
    \/ \E m \in MergeIds, c \in JobCreateInputs : ReqCreateJob(m, c[1], c[2], c[3], c[4])
    \/ \E j \in JobIds, u \in JobUpdateInputs : ReqUpdateJob(j, u[1], u[2], u[3])
    \/ ReqCommit
    \/ ReqFail
    \/ ~DISABLE_AUTOMATION /\ ReqDispatch
    \/ ~DISABLE_AUTOMATION /\ ReqDispatchFail
    \/ DISABLE_AUTOMATION /\ InlineCall
    \/ DISABLE_AUTOMATION /\ InlineReturn
    \/ (DISABLE_AUTOMATION => req.pc = "idle") /\ \E m \in MergeIds : create_merge_conflict(m)
    \/ (DISABLE_AUTOMATION => req.pc = "idle")
          /\ \E c \in ConflictIds, r \in TriState : update_merge_conflict(c, r)
    \/ \E w \in Workers, j \in JobIds : ExecStart(w, j)
    \/ \E w \in Workers : ExecHandler(w)
    \/ \E w \in Workers : ExecReact(w)
    \/ \E w \in Workers : ExecFinalize(w)
    \/ \E w \in Workers : ExecConflict(w)
    \/ \E w \in Workers : ExecCommit(w)

\* a worker that can take a task takes it and a run that can take its next step
\* takes it; a handler past its last statement before the commit or the hand-off
\* goes on to it
Fairness ==
    /\ \A j \in JobIds : WF_vars(\E w \in Workers : ExecStart(w, j))
    /\ \A w \in Workers :
          WF_vars(ExecHandler(w) \/ ExecReact(w) \/ ExecFinalize(w)
                     \/ ExecConflict(w) \/ ExecCommit(w))
    /\ WF_vars(ReqCommit)
    /\ WF_vars(~DISABLE_AUTOMATION /\ ReqDispatch)
    /\ WF_vars(DISABLE_AUTOMATION /\ InlineCall)
    /\ WF_vars(DISABLE_AUTOMATION /\ InlineReturn)

FairSpec == FairInit /\ [][FairNext]_vars /\ Fairness

\* ------------------------------------------------------------- changelists
\* the users table: user id -> role (a fixed fixture)
Users == {1, 2, 3}
UserRole(u) == IF u = 3 THEN "admin" ELSE "artist"

\* the workspaces table: workspace id -> project id (a fixed fixture; 0 = no such workspace)
WorkspaceProject(ws) == CASE ws = 1 -> 1 [] ws = 2 -> 1 [] ws = 3 -> 2 [] OTHER -> 0

\* asset_versions joined to assets: version id -> project id (0 = no such version)
AssetVersionProject(av) == IF av \in AssetVersionIds THEN 1 ELSE IF av = MaxVersions + 1 THEN 2 ELSE 0

CHANGELIST_SUBMIT_STATUSES == {"submitted", "pending_review"}
CHANGELIST_EDITABLE_STATUSES == {"open", "pending_review"}
CHANGELIST_ITEM_ACTIONS == {"add", "edit", "delete", "integrate"}
DefaultChangelistStatus == "open"
SubmitterNotes == {NULL, "first", "second"}

NoItems == {}
item_count(c) == Cardinality(changelist_items[c])

\* rows of a database that has been in use: an editable or submitted changelist
\* of project 1, last written before the clock started
StoredChangelists ==
    {[status |-> "open", project_id |-> 1, workspace_id |-> 1, target_branch_id |-> t,
      submitted_at |-> NoStamp, submitter_notes |-> NULL, updated_at |-> 1] :
         t \in {NoBranch, 1}}
    \cup {[status |-> st, project_id |-> 1, workspace_id |-> 1, target_branch_id |-> 1,
           submitted_at |-> 1, submitter_notes |-> "first", updated_at |-> 1] :
              st \in CHANGELIST_SUBMIT_STATUSES}
StoredItems == {NoItems, {[id |-> 1, asset_version_id |-> 1, action |-> "edit",
                           target_branch_id |-> NoBranch, created_at |-> 1]}}

ChangelistInit ==
    /\ merges = [m \in MergeIds |-> NoMerge]
    /\ jobs = [j \in JobIds |-> NoJob]
    /\ conflicts = [c \in ConflictIds |-> NoConflict]
    /\ queue = {}
    /\ workers = [w \in Workers |-> IdleWorker]
    /\ op = IdleOp
    /\ req = IdleReq
    /\ resp = NoResp
    /\ nreq = 0
    /\ runs = [j \in JobIds |-> [wrote |-> 0, queued |-> 0, sent |-> 0, done |-> 0,
                                  skipped |-> 0]]
    /\ changelists \in [ChangelistIds -> StoredChangelists \cup {NoChangelist}]
    /\ changelist_items \in [ChangelistIds -> StoredItems]
    /\ \A c \in ChangelistIds : changelists[c].status = "absent" => changelist_items[c] = NoItems
    /\ clock = 2
    /\ submit_before = NoChangelist
    /\ shelves = [s \in ShelfIds |-> NoShelf]
    /\ asset_locks = {}
    /\ lock_history = [a \in AssetIds |-> <<>>]
    /\ IdentityIdle
    /\ DISABLE_AUTOMATION = FALSE

mergevars == <<merges, jobs, conflicts, queue, workers, op, req, nreq, runs, idvars,
               DISABLE_AUTOMATION, callers>>
FreeChangelistIds == {c \in ChangelistIds : changelists[c].status = "absent"}

\* the request fails before its first write: HTTPException, rollback
Reject(detail) ==
    /\ resp' = detail
    /\ UNCHANGED <<mergevars, clvars>>

FreeShelfIds == {s \in ShelfIds : shelves[s].created_by = 0}
ShelfExists(s) == s \in ShelfIds /\ shelves[s].created_by # 0

create_changelist(project_id, workspace_id, target_branch_id, shelf_id) ==
    /\ FreeChangelistIds # {}
    /\ clock < MaxClock
    /\ IF WorkspaceProject(workspace_id) = 0
       THEN Reject("404 Workspace not found")
       ELSE IF WorkspaceProject(workspace_id) # project_id
       THEN Reject("400 Workspace does not belong to project")
       ELSE IF target_branch_id # NoBranch /\ BranchProject(target_branch_id) = 0
       THEN Reject("404 Target branch not found")
       ELSE IF target_branch_id # NoBranch /\ BranchProject(target_branch_id) # project_id
       THEN Reject("400 Target branch not in project")
       ELSE IF shelf_id # 0 /\ ~ShelfExists(shelf_id)
       THEN Reject("404 Shelf not found")
       ELSE IF shelf_id # 0 /\ shelves[shelf_id].workspace_id # workspace_id
       THEN Reject("400 Shelf workspace mismatch")
       ELSE IF shelf_id # 0 /\ shelves[shelf_id].changelist_id # 0
       THEN Reject("400 Shelf is already linked to a changelist")
       ELSE LET c == Min(FreeChangelistIds) IN
            /\ changelists' = [changelists EXCEPT ![c] =
                                  [status |-> DefaultChangelistStatus,
                                   project_id |-> project_id,
                                   workspace_id |-> workspace_id,
                                   target_branch_id |-> target_branch_id,
                                   submitted_at |-> NoStamp,
                                   submitter_notes |-> NULL,
                                   updated_at |-> clock]]
            /\ shelves' = IF shelf_id # 0
                           THEN [shelves EXCEPT ![shelf_id].changelist_id = c]
                           ELSE shelves
            /\ clock' = clock + 1
            /\ resp' = "201"
            /\ UNCHANGED <<mergevars, changelist_items, submit_before, lockvars>>

\* a create_shelf that only looks the changelist up
ShelfLinkIfFound(workspace_id, changelist_id) ==
    IF changelist_id \notin ChangelistIds \/ changelists[changelist_id].status = "absent"
    THEN "Changelist not found"
    ELSE "none"

\* the changelist tests of create_shelf, for a request that names a changelist
ShelfLinkError(workspace_id, changelist_id) ==
    IF changelist_id \notin ChangelistIds \/ changelists[changelist_id].status = "absent"
    THEN "Changelist not found"
    ELSE IF changelists[changelist_id].workspace_id # workspace_id
    THEN "Changelist workspace mismatch"
    ELSE IF changelists[changelist_id].status \notin {"open", "pending_review"}
    THEN "Changelist is not accepting shelves"
    ELSE "none"

\* create_shelf has one handler for every exception: its own HTTPException is
\* answered as 500 with the detail as text
create_shelf(current_user, workspace_id, changelist_id) ==
    /\ FreeShelfIds # {}
    /\ clock < MaxClock
    /\ IF changelist_id # 0 /\ ShelfLinkError(workspace_id, changelist_id) # "none"
       THEN Reject("500 " \o ShelfLinkError(workspace_id, changelist_id))
       ELSE /\ shelves' = [shelves EXCEPT ![Min(FreeShelfIds)] =
                               [workspace_id |-> workspace_id,
                                asset_version_id |-> 1,
                                changelist_id |-> changelist_id,
                                created_by |-> current_user,
                                created_at |-> clock]]
            /\ changelists' = IF changelist_id # 0
                               THEN [changelists EXCEPT ![changelist_id].updated_at = clock]
                               ELSE changelists
            /\ clock' = clock + 1
            /\ resp' = "201"
            /\ UNCHANGED <<mergevars, changelist_items, submit_before, lockvars>>

\* the DELETE matched a shelf of the requester, or the requester is an admin
MayDeleteShelf(current_user, shelf_id) ==
    \/ ShelfExists(shelf_id) /\ shelves[shelf_id].created_by = current_user
    \/ UserRole(current_user) = "admin"

delete_shelf(current_user, shelf_id) ==
    IF ~MayDeleteShelf(current_user, shelf_id)
    THEN Reject("403 Cannot delete shelf you do not own")
    ELSE /\ shelves' = [s \in ShelfIds |-> IF s = shelf_id THEN NoShelf ELSE shelves[s]]
         /\ resp' = "204"
         /\ UNCHANGED <<mergevars, changelists, changelist_items, clock, submit_before,
                        lockvars>>

\* an INSERT that knows no conflict: the new row is added beside the old one
InsertItem(rows, new) == rows \cup {new}

\* INSERT INTO changelist_items ... ON CONFLICT (changelist_id, asset_version_id)
\* DO UPDATE SET action, target_branch_id, created_at, on the rows of one changelist
UpsertItem(rows, new) ==
    LET old == {r \in rows : r.asset_version_id = new.asset_version_id} IN
    IF old = {}
    THEN rows \cup {new}
    ELSE (rows \ old) \cup {[r EXCEPT !.action = new.action,
                                      !.target_branch_id = new.target_branch_id,
                                      !.created_at = new.created_at] : r \in old}

\* the id the INSERT generates: never used before (the clock value of the write)
FreshItemId == clock

add_changelist_item(c, asset_version_id, action, target_branch_id) ==
    /\ clock < MaxClock
    /\ IF changelists[c].status = "absent"
       THEN Reject("404 Changelist not found")
       ELSE IF changelists[c].status \notin CHANGELIST_EDITABLE_STATUSES
       THEN Reject("400 Changelist is not editable")
       ELSE IF action \notin CHANGELIST_ITEM_ACTIONS
       THEN Reject("400 Unsupported changelist action")
       ELSE IF AssetVersionProject(asset_version_id) = 0
       THEN Reject("404 Asset version not found")
       ELSE IF AssetVersionProject(asset_version_id) # changelists[c].project_id
       THEN Reject("400 Asset version from different project")
       ELSE IF target_branch_id # NoBranch /\ BranchProject(target_branch_id) = 0
       THEN Reject("404 Target branch not found")
       ELSE IF target_branch_id # NoBranch
               /\ BranchProject(target_branch_id) # changelists[c].project_id
       THEN Reject("400 Target branch not in project")
       ELSE /\ changelist_items' =
                  [changelist_items EXCEPT ![c] =
                      UpsertItem(@, [id |-> FreshItemId,
                                     asset_version_id |-> asset_version_id,
                                     action |-> action,
                                     target_branch_id |-> target_branch_id,
                                     created_at |-> clock])]
            /\ changelists' = [changelists EXCEPT ![c].updated_at = clock]
            /\ clock' = clock + 1
            /\ resp' = "201"
            /\ UNCHANGED <<mergevars, submit_before, shelves, lockvars>>

remove_changelist_item(c, item_id) ==
    /\ clock < MaxClock
    /\ IF {r \in changelist_items[c] : r.id = item_id} = {}
       THEN Reject("404 Changelist item not found")
       ELSE /\ changelist_items' = [changelist_items EXCEPT ![c] =
                                        {r \in @ : r.id # item_id}]
            /\ changelists' = [changelists EXCEPT ![c].updated_at = clock]
            /\ clock' = clock + 1
            /\ resp' = "200"
            /\ UNCHANGED <<mergevars, submit_before, shelves, lockvars>>

\* a status test that lets only an editable changelist through
AlreadyFinalizedUnlessEditable(status, desired_status) ==
    status \notin {"open", "pending_review"}

\* the status test of submit_changelist
AlreadyFinalized(status, desired_status) ==
    status \notin {"open", "pending_review"} /\ status # desired_status

\* a target-branch test that never fires
TargetBranchNeverMissing(c) == FALSE

\* the target-branch test of submit_changelist
MissingTargetBranch(c) == changelists[c].target_branch_id = NoBranch

submit_changelist(c, status, submitter_notes) ==
    LET desired_status == IF status = NULL THEN "submitted" ELSE status IN
    /\ clock < MaxClock
    /\ IF desired_status \notin CHANGELIST_SUBMIT_STATUSES
       THEN Reject("400 Unsupported changelist status")
       ELSE IF changelists[c].status = "absent"
       THEN Reject("404 Changelist not found")
       ELSE IF AlreadyFinalized(changelists[c].status, desired_status)
       THEN Reject("400 Changelist already finalized")
       ELSE IF MissingTargetBranch(c)
       THEN Reject("400 Target branch is required before submit")
       ELSE IF item_count(c) = 0
       THEN Reject("400 Changelist must include at least one asset version")
       ELSE /\ changelists' = [changelists EXCEPT ![c].status = desired_status,
                                                  ![c].submitter_notes = submitter_notes,
                                                  ![c].submitted_at = clock,
                                                  ![c].updated_at = clock]
            /\ clock' = clock + 1
            /\ submit_before' = changelists[c]
            /\ resp' = "200"
            /\ UNCHANGED <<mergevars, changelist_items, shelves, lockvars>>

ChangelistCreateInputs == {<<1, 1, 1, 0>>, <<1, 1, NoBranch, 0>>, <<2, 1, 1, 0>>,
                           <<1, 4, 1, 0>>, <<1, 1, 3, 0>>, <<1, 1, 4, 0>>,
                           <<1, 1, 1, 1>>, <<1, 2, 1, 1>>, <<1, 1, 1, MaxShelves + 1>>}
ShelfCreateInputs == {1, 2} \X {1, 2} \X {0, 1, MaxChangelists + 1}
ChangelistItemInputs == {<<1, "edit", NoBranch>>, <<1, "integrate", 1>>, <<2, "edit", 1>>,
                         <<1, "rename", NoBranch>>, <<MaxVersions + 1, "edit", NoBranch>>,
                         <<MaxVersions + 2, "edit", NoBranch>>, <<1, "edit", 3>>,
                         <<1, "edit", 4>>}
ItemIds == 1..(MaxClock - 1)
ChangelistSubmitInputs == {NULL, "submitted", "pending_review", "cancelled"} \X SubmitterNotes

ChangelistNext ==
    \/ \E i \in ChangelistCreateInputs : create_changelist(i[1], i[2], i[3], i[4])
    \/ \E i \in ShelfCreateInputs : create_shelf(i[1], i[2], i[3])
    \/ \E u \in Users, s \in ShelfIds : delete_shelf(u, s)
    \/ \E c \in ChangelistIds, i \in ChangelistItemInputs :
          add_changelist_item(c, i[1], i[2], i[3])
    \/ \E c \in ChangelistIds, item_id \in ItemIds : remove_changelist_item(c, item_id)
    \/ \E c \in ChangelistIds, i \in ChangelistSubmitInputs : submit_changelist(c, i[1], i[2])

ChangelistSpec == ChangelistInit /\ [][ChangelistNext]_vars

\* ------------------------------- create_changelist among concurrent callers
\* the checks of create_changelist on the rows it reads: the refusal, or none
ChangelistCreateError(project_id, workspace_id, target_branch_id, shelf_id) ==
    IF WorkspaceProject(workspace_id) = 0 THEN "404 Workspace not found"
    ELSE IF WorkspaceProject(workspace_id) # project_id
    THEN "400 Workspace does not belong to project"
    ELSE IF target_branch_id # NoBranch /\ BranchProject(target_branch_id) = 0
    THEN "404 Target branch not found"
    ELSE IF target_branch_id # NoBranch /\ BranchProject(target_branch_id) # project_id
    THEN "400 Target branch not in project"
    ELSE IF shelf_id # 0 /\ ~ShelfExists(shelf_id) THEN "404 Shelf not found"
    ELSE IF shelf_id # 0 /\ shelves[shelf_id].workspace_id # workspace_id
    THEN "400 Shelf workspace mismatch"
    ELSE IF shelf_id # 0 /\ shelves[shelf_id].changelist_id # 0
    THEN "400 Shelf is already linked to a changelist"
    ELSE "none"

\* the changelists table of the callers: room for one row each
InsertableIds == {c \in DOMAIN changelists : changelists[c].status = "absent"}
Inserting == {p \in Callers : callers[p].pc = "insert"}

\* create_changelist up to its INSERT: plain SELECTs of the committed rows, which
\* lock nothing
CreateChangelistChecks(p, project_id, workspace_id, target_branch_id, shelf_id) ==
    /\ callers[p].pc = "idle"
    /\ clock + Cardinality(Inserting) < MaxClock
    /\ Cardinality(InsertableIds) > Cardinality(Inserting)
    /\ LET e == ChangelistCreateError(project_id, workspace_id, target_branch_id, shelf_id) IN
          IF e # "none"
          THEN /\ resp' = e
               /\ UNCHANGED callers
          ELSE /\ callers' = [callers EXCEPT ![p] =
                                 [IdleCaller EXCEPT !.pc = "insert",
                                                    !.project_id = project_id,
                                                    !.workspace_id = workspace_id,
                                                    !.target_branch_id = target_branch_id,
                                                    !.shelf_id = shelf_id]]
               /\ UNCHANGED resp
    /\ UNCHANGED <<merges, jobs, conflicts, queue, workers, op, req, nreq, runs, idvars,
                   DISABLE_AUTOMATION>>
    /\ UNCHANGED <<changelists, changelist_items, clock, submit_before, shelves, lockvars>>

\* the INSERT INTO changelists, the UPDATE shelves SET changelist_id = %s WHERE
\* id = %s and the commit
CreateChangelistWrites(p) ==
    LET me == callers[p]
        c == Min(InsertableIds)
    IN
    /\ me.pc = "insert"
    /\ changelists' = [changelists EXCEPT ![c] =
                          [status |-> DefaultChangelistStatus,
                           project_id |-> me.project_id,
                           workspace_id |-> me.workspace_id,
                           target_branch_id |-> me.target_branch_id,
                           submitted_at |-> NoStamp,
                           submitter_notes |-> NULL,
                           updated_at |-> clock]]
    /\ shelves' = IF me.shelf_id # 0 /\ ShelfExists(me.shelf_id)
                   THEN [shelves EXCEPT ![me.shelf_id].changelist_id = c]
                   ELSE shelves
    /\ clock' = clock + 1
    /\ resp' = "201"
    /\ callers' = [callers EXCEPT ![p] = IdleCaller]
    /\ UNCHANGED <<merges, jobs, conflicts, queue, workers, op, req, nreq, runs, idvars,
                   DISABLE_AUTOMATION>>
    /\ UNCHANGED <<changelist_items, submit_before, lockvars>>

\* a shelf of workspace 1 that no changelist has
StoredShelf == [workspace_id |-> 1, asset_version_id |-> 1, changelist_id |-> 0,
                created_by |-> 1, created_at |-> 1]

ConcurrentInit ==
    /\ merges = [m \in MergeIds |-> NoMerge]
    /\ jobs = [j \in JobIds |-> NoJob]
    /\ conflicts = [c \in ConflictIds |-> NoConflict]
    /\ queue = [j \in JobIds |-> 0]
    /\ workers = [w \in Workers |-> IdleWorker]
    /\ op = IdleOp
    /\ req = IdleReq
    /\ resp = NoResp
    /\ nreq = 0
    /\ runs = [j \in JobIds |-> [wrote |-> 0, queued |-> 0, sent |-> 0, done |-> 0,
                                  skipped |-> 0]]
    /\ changelists = [c \in Callers |-> NoChangelist]
    /\ changelist_items = [c \in Callers |-> {}]
    /\ clock = 2
    /\ submit_before = NoChangelist
    /\ shelves \in [ShelfIds -> {NoShelf, StoredShelf}]
    /\ asset_locks = {}
    /\ lock_history = [a \in AssetIds |-> <<>>]
    /\ IdentityIdle
    /\ DISABLE_AUTOMATION = FALSE

ConcurrentNext ==
    \/ \E p \in Callers, i \in ChangelistCreateInputs :
          CreateChangelistChecks(p, i[1], i[2], i[3], i[4])
    \/ \E p \in Callers : CreateChangelistWrites(p)
    \/ \E i \in ShelfCreateInputs : create_shelf(i[1], i[2], i[3])
    \/ \E u \in Users, s \in ShelfIds : delete_shelf(u, s)

ConcurrentSpec == ConcurrentInit /\ [][ConcurrentNext]_vars

\* ---- submit_changelist called by concurrent requests ----

Updating == {p \in Callers : callers[p].pc = "update"}

\* submit_changelist up to its UPDATE: the status test reads the committed row
\* with a plain SELECT, which locks nothing
SubmitChangelistChecks(p, c, status, submitter_notes) ==
    LET desired_status == IF status = NULL THEN "submitted" ELSE status IN
    /\ callers[p].pc = "idle"
    /\ clock + Cardinality(Updating) < MaxClock
    /\ IF desired_status \notin CHANGELIST_SUBMIT_STATUSES
       THEN Reject("400 Unsupported changelist status")
       ELSE IF changelists[c].status = "absent"
       THEN Reject("404 Changelist not found")
       ELSE IF AlreadyFinalized(changelists[c].status, desired_status)
       THEN Reject("400 Changelist already finalized")
       ELSE IF MissingTargetBranch(c)
       THEN Reject("400 Target branch is required before submit")
       ELSE IF item_count(c) = 0
       THEN Reject("400 Changelist must include at least one asset version")
       ELSE /\ callers' = [callers EXCEPT ![p] =
                              [IdleCaller EXCEPT !.pc = "update",
                                                 !.changelist_id = c,
                                                 !.desired_status = desired_status,
                                                 !.submitter_notes = submitter_notes]]
            /\ UNCHANGED resp
            /\ UNCHANGED <<merges, jobs, conflicts, queue, workers, op, req, nreq, runs,
                           idvars, DISABLE_AUTOMATION>>
            /\ UNCHANGED <<changelists, changelist_items, clock, submit_before, shelves,
                           lockvars>>

\* the UPDATE changelists SET status = %s, ... WHERE id = %s and the commit
SubmitChangelistWrites(p) ==
    LET me == callers[p]
        c == me.changelist_id
    IN
    /\ me.pc = "update"
    /\ changelists' = [changelists EXCEPT ![c].status = me.desired_status,
                                          ![c].submitter_notes = me.submitter_notes,
                                          ![c].submitted_at = clock,
                                          ![c].updated_at = clock]
    /\ clock' = clock + 1
    /\ submit_before' = changelists[c]
    /\ resp' = "200"
    /\ callers' = [callers EXCEPT ![p] = IdleCaller]
    /\ UNCHANGED <<merges, jobs, conflicts, queue, workers, op, req, nreq, runs, idvars,
                   DISABLE_AUTOMATION>>
    /\ UNCHANGED <<changelist_items, shelves, lockvars>>

SubmitNext ==
    \/ \E p \in Callers, c \in ChangelistIds, i \in ChangelistSubmitInputs :
          SubmitChangelistChecks(p, c, i[1], i[2])
    \/ \E p \in Callers : SubmitChangelistWrites(p)

SubmitSpec == ChangelistInit /\ [][SubmitNext]_vars



\* ------------------------------------------------------------ asset locks
\* an INSERT that knows no conflict: the new lock is added beside the old one
InsertLock(rows, new) == rows \cup {new}

\* INSERT INTO asset_locks ... ON CONFLICT (asset_id) DO UPDATE SET locked_by,
\* expires_at, locked_at
UpsertLock(rows, new) ==
    LET old == {l \in rows : l.asset_id = new.asset_id} IN
    IF old = {}
    THEN rows \cup {new}
    ELSE (rows \ old) \cup {[l EXCEPT !.locked_by = new.locked_by,
                                      !.expires_at = new.expires_at,
                                      !.locked_at = new.locked_at] : l \in old}

create_lock(current_user, asset_id, expires_at) ==
    /\ clock < MaxClock
    /\ Len(lock_history[asset_id]) < MaxLockEvents
    /\ asset_locks' = UpsertLock(asset_locks, [id |-> clock,
                                               asset_id |-> asset_id,
                                               locked_by |-> current_user,
                                               expires_at |-> expires_at,
                                               locked_at |-> clock])
    /\ clock' = clock + 1
    /\ lock_history' = [lock_history EXCEPT ![asset_id] = Append(@, <<"lock", current_user>>)]
    /\ resp' = "201"
    /\ UNCHANGED <<mergevars, changelists, changelist_items, submit_before, shelves>>

\* a release that asks for no ownership
MayReleaseAnyone(current_user, asset_id) == TRUE

\* the DELETE matched a row of the requester, or the requester is an admin
MayRelease(current_user, asset_id) ==
    \/ \E l \in asset_locks : l.asset_id = asset_id /\ l.locked_by = current_user
    \/ UserRole(current_user) = "admin"

release_lock(current_user, asset_id) ==
    /\ Len(lock_history[asset_id]) < MaxLockEvents
    /\ IF ~MayRelease(current_user, asset_id)
       THEN Reject("403 Cannot release lock you do not own")
       ELSE /\ asset_locks' =
                  LET own == {l \in asset_locks :
                                 l.asset_id = asset_id /\ l.locked_by = current_user} IN
                  IF own # {} THEN asset_locks \ own
                  ELSE {l \in asset_locks : l.asset_id # asset_id}
            /\ lock_history' = [lock_history EXCEPT ![asset_id] =
                                   Append(@, <<"release", current_user>>)]
            /\ resp' = "204"
            /\ UNCHANGED <<mergevars, changelists, changelist_items, clock, submit_before,
                           shelves>>

\* expires_at of a lock request: none, already past, still to come
LockExpiries == {NoStamp, 1, MaxClock}

LockInit ==
    /\ merges = [m \in MergeIds |-> NoMerge]
    /\ jobs = [j \in JobIds |-> NoJob]
    /\ conflicts = [c \in ConflictIds |-> NoConflict]
    /\ queue = {}
    /\ workers = [w \in Workers |-> IdleWorker]
    /\ op = IdleOp
    /\ req = IdleReq
    /\ resp = NoResp
    /\ nreq = 0
    /\ runs = [j \in JobIds |-> [wrote |-> 0, queued |-> 0, sent |-> 0, done |-> 0,
                                  skipped |-> 0]]
    /\ changelists = [c \in ChangelistIds |-> NoChangelist]
    /\ changelist_items = [c \in ChangelistIds |-> {}]
    /\ clock = 2
    /\ submit_before = NoChangelist
    /\ shelves = [s \in ShelfIds |-> NoShelf]
    /\ asset_locks = {}
    /\ lock_history = [a \in AssetIds |-> <<>>]
    /\ IdentityIdle
    /\ DISABLE_AUTOMATION = FALSE

LockNext ==
    \/ \E u \in Users, a \in AssetIds, e \in LockExpiries : create_lock(u, a, e)
    \/ \E u \in Users, a \in AssetIds : release_lock(u, a)
    \/ \E i \in ShelfCreateInputs : create_shelf(i[1], i[2], i[3])
    \/ \E u \in Users, s \in ShelfIds : delete_shelf(u, s)

LockSpec == LockInit /\ [][LockNext]_vars


\* ------------------------------------------------------------------ actor identity
\* app.current_user_id as a statement on the connection sees it: the value set for
\* the transaction if there is one, the session's value otherwise
current_setting(conn) == IF conn.local # <<>> THEN conn.local[1] ELSE conn.session

\* SELECT set_app_user(user_id): a function of the database; it sets
\* app.current_user_id for the unit of work, that is for the current transaction
set_app_user(conn, user_id) ==
    [conn EXCEPT !.local = <<user_id>>, !.history = @ \cup {user_id}]

set_rls_user(conn, user_id) == set_app_user(conn, user_id)

\* set_config('app.current_user_id', '', true)
clear_rls_user(conn) == [conn EXCEPT !.local = <<NoUser>>]

\* a commit or rollback keeps what was set for the session only
KeepTransactionSettings(conn) == conn
EndTransaction(conn) == [conn EXCEPT !.local = <<>>]

AdminUsers == {u \in Users : UserRole(u) = "admin"}
FirstAdmin == CHOOSE u \in AdminUsers : \A v \in AdminUsers : u <= v
\* the identity a unit of work runs under
OwnIdentity(u) ==
    IF units[u].kind # "run" THEN units[u].user
    ELSE IF AUTOMATION_USER_ID # NoUser THEN AUTOMATION_USER_ID
    ELSE IF AdminUsers # {} THEN FirstAdmin ELSE NoUser

\* a statement of unit u on connection c
Statement(u, c, table, after_set) ==
    [table |-> table, after_set |-> after_set,
     seen |-> current_setting(pool[c]), own |-> OwnIdentity(u),
     prior |-> pool[c].history]

\* the dependency of every API operation: a connection of its own for one read of
\* users, given back before the handler starts
get_current_user(u) ==
    /\ units[u].kind # "run"
    /\ units[u].pc = "new"
    /\ \E c \in Conns :
          /\ pool[c].holder = NoUnit
          /\ observed' = observed \cup {Statement(u, c, "users", FALSE)}
          /\ pool' = [pool EXCEPT ![c] = EndTransaction(@)]
    /\ units' = [units EXCEPT ![u].pc = "authenticated"]
    /\ UNCHANGED <<AUTOMATION_USER_ID, DISABLE_AUTOMATION, callers, resp>>
    /\ UNCHANGED <<merges, jobs, conflicts, queue, workers, op, req, nreq, runs>>
    /\ UNCHANGED <<changelists, changelist_items, clock, submit_before, shelves, lockvars>>

\* with get_connection() as conn: of a handler or of run_merge_job
get_connection(u) ==
    /\ units[u].pc = IF units[u].kind = "run" THEN "new" ELSE "authenticated"
    /\ \E c \in Conns :
          /\ pool[c].holder = NoUnit
          /\ pool' = [pool EXCEPT ![c].holder = u]
          /\ units' = [units EXCEPT ![u].pc = "held", ![u].conn = c]
    /\ UNCHANGED <<observed, AUTOMATION_USER_ID, DISABLE_AUTOMATION, callers, resp>>
    /\ UNCHANGED <<merges, jobs, conflicts, queue, workers, op, req, nreq, runs>>
    /\ UNCHANGED <<changelists, changelist_items, clock, submit_before, shelves, lockvars>>

\* the first statement of every handler
HandlerSetsUser(u) ==
    /\ units[u].kind # "run"
    /\ units[u].pc = "held"
    /\ pool' = [pool EXCEPT ![units[u].conn] = set_rls_user(@, units[u].user)]
    /\ units' = [units EXCEPT ![u].pc = "set"]
    /\ UNCHANGED <<observed, AUTOMATION_USER_ID, DISABLE_AUTOMATION, callers, resp>>
    /\ UNCHANGED <<merges, jobs, conflicts, queue, workers, op, req, nreq, runs>>
    /\ UNCHANGED <<changelists, changelist_items, clock, submit_before, shelves, lockvars>>

\* the first call of run_merge_job
_set_automation_identity(u) ==
    /\ units[u].kind = "run"
    /\ units[u].pc = "held"
    /\ LET c == units[u].conn IN
          IF AUTOMATION_USER_ID # NoUser
          THEN /\ pool' = [pool EXCEPT ![c] = set_rls_user(@, AUTOMATION_USER_ID)]
               /\ UNCHANGED observed
          ELSE /\ observed' = observed \cup {Statement(u, c, "users", FALSE)}
               /\ pool' = [pool EXCEPT ![c] = IF AdminUsers # {}
                                                THEN set_rls_user(@, FirstAdmin)
                                                ELSE clear_rls_user(@)]
    /\ units' = [units EXCEPT ![u].pc = "set"]
    /\ UNCHANGED <<AUTOMATION_USER_ID, DISABLE_AUTOMATION, callers, resp>>
    /\ UNCHANGED <<merges, jobs, conflicts, queue, workers, op, req, nreq, runs>>
    /\ UNCHANGED <<changelists, changelist_items, clock, submit_before, shelves, lockvars>>

\* the reads and writes of entities in the transaction of the unit of work
EntityStatements(u) ==
    /\ units[u].pc = "set"
    /\ observed' = observed \cup {Statement(u, units[u].conn, "entities", TRUE)}
    /\ units' = [units EXCEPT ![u].pc = "worked"]
    /\ UNCHANGED <<pool, AUTOMATION_USER_ID, DISABLE_AUTOMATION, callers, resp>>
    /\ UNCHANGED <<merges, jobs, conflicts, queue, workers, op, req, nreq, runs>>
    /\ UNCHANGED <<changelists, changelist_items, clock, submit_before, shelves, lockvars>>

\* conn.commit()
conn_commit(u) ==
    /\ units[u].pc = "worked"
    /\ pool' = [pool EXCEPT ![units[u].conn] = EndTransaction(@)]
    /\ units' = [units EXCEPT ![u].pc = "committed"]
    /\ UNCHANGED <<observed, AUTOMATION_USER_ID, DISABLE_AUTOMATION, callers, resp>>
    /\ UNCHANGED <<merges, jobs, conflicts, queue, workers, op, req, nreq, runs>>
    /\ UNCHANGED <<changelists, changelist_items, clock, submit_before, shelves, lockvars>>

\* conn.rollback() of the except clauses
conn_rollback(u) ==
    /\ units[u].pc \in {"set", "worked"}
    /\ pool' = [pool EXCEPT ![units[u].conn] = EndTransaction(@)]
    /\ units' = [units EXCEPT ![u].pc = "returning"]
    /\ UNCHANGED <<observed, AUTOMATION_USER_ID, DISABLE_AUTOMATION, callers, resp>>
    /\ UNCHANGED <<merges, jobs, conflicts, queue, workers, op, req, nreq, runs>>
    /\ UNCHANGED <<changelists, changelist_items, clock, submit_before, shelves, lockvars>>

\* a changelist handler reads items and shelf for its response after its commit
_changelist_row_to_response(u) ==
    /\ units[u].kind = "changelist_operation"
    /\ units[u].pc = "committed"
    /\ observed' = observed \cup {Statement(u, units[u].conn, "entities", TRUE)}
    /\ units' = [units EXCEPT ![u].pc = "returning"]
    /\ UNCHANGED <<pool, AUTOMATION_USER_ID, DISABLE_AUTOMATION, callers, resp>>
    /\ UNCHANGED <<merges, jobs, conflicts, queue, workers, op, req, nreq, runs>>
    /\ UNCHANGED <<changelists, changelist_items, clock, submit_before, shelves, lockvars>>

\* the end of the with block: the pool ends the transaction and takes the
\* connection back
PutConnection(u) ==
    /\ \/ units[u].pc = "returning"
       \/ units[u].pc = "committed" /\ units[u].kind # "changelist_operation"
    /\ pool' = [pool EXCEPT ![units[u].conn] = [EndTransaction(@) EXCEPT !.holder = NoUnit]]
    /\ units' = [units EXCEPT ![u].pc = "done", ![u].conn = 0]
    /\ UNCHANGED <<observed, AUTOMATION_USER_ID, DISABLE_AUTOMATION, callers, resp>>
    /\ UNCHANGED <<merges, jobs, conflicts, queue, workers, op, req, nreq, runs>>
    /\ UNCHANGED <<changelists, changelist_items, clock, submit_before, shelves, lockvars>>

\* the units of work: an operation of one artist, an operation of another that
\* reads a changelist for its response, and an executor run
UnitsOfWork ==
    {[kind |-> "operation", user |-> 1, pc |-> "new", conn |-> 0],
     [kind |-> "changelist_operation", user |-> 2, pc |-> "new", conn |-> 0],
     [kind |-> "run", user |-> NoUser, pc |-> "new", conn |-> 0]}

IdentityInit ==
    /\ merges = [m \in MergeIds |-> NoMerge]
    /\ jobs = [j \in JobIds |-> NoJob]
    /\ conflicts = [c \in ConflictIds |-> NoConflict]
    /\ queue = [j \in JobIds |-> 0]
    /\ workers = [w \in Workers |-> IdleWorker]
    /\ op = IdleOp
    /\ req = IdleReq
    /\ resp = NoResp
    /\ nreq = 0
    /\ runs = [j \in JobIds |-> [wrote |-> 0, queued |-> 0, sent |-> 0, done |-> 0,
                                  skipped |-> 0]]
    /\ changelists = [c \in ChangelistIds |-> NoChangelist]
    /\ changelist_items = [c \in ChangelistIds |-> {}]
    /\ clock = 0
    /\ submit_before = NoChangelist
    /\ shelves = [s \in ShelfIds |-> NoShelf]
    /\ asset_locks = {}
    /\ lock_history = [a \in AssetIds |-> <<>>]
    /\ pool = [c \in Conns |-> FreeConn]
    /\ units \in [Units -> UnitsOfWork]
    /\ observed = {}
    /\ AUTOMATION_USER_ID \in {NoUser, 3}
    /\ callers = [p \in Callers |-> IdleCaller]
    /\ DISABLE_AUTOMATION = FALSE

IdentityNext ==
    \/ \E u \in Units : get_current_user(u)
    \/ \E u \in Units : get_connection(u)
    \/ \E u \in Units : HandlerSetsUser(u)
    \/ \E u \in Units : _set_automation_identity(u)
    \/ \E u \in Units : EntityStatements(u)
    \/ \E u \in Units : conn_commit(u)
    \/ \E u \in Units : conn_rollback(u)
    \/ \E u \in Units : _changelist_row_to_response(u)
    \/ \E u \in Units : PutConnection(u)

IdentitySpec == IdentityInit /\ [][IdentityNext]_vars


\* ------------------------------------------------------------------ claims
\* the conditions of the claims, stated over given tables
JobsOfIn(js, m) == {j \in JobIds : js[j].merge = m}
HasGateJobIn(js, m) == \E j \in JobsOfIn(js, m) : js[j].job_type = "submit_gate"
GatePassedIn(js, m) == \E j \in JobsOfIn(js, m) : js[j].status = "completed" /\ js[j].passed
NoneOutstandingIn(js, m) ==
    \A j \in JobsOfIn(js, m) : js[j].status \notin {"queued", "running", "staged"}
NoneUnresolvedIn(cs, m) == \A c \in ConflictIds : cs[c].merge = m => cs[c].resolved
GateOpenIn(js, cs, m) ==
    GatePassedIn(js, m) /\ NoneOutstandingIn(js, m) /\ NoneUnresolvedIn(cs, m)
AllDoneIn(js, m) ==
    /\ JobsOfIn(js, m) # {}
    /\ \A j \in JobsOfIn(js, m) :
          js[j].status = "completed" /\ (js[j].job_type = "submit_gate" => js[j].passed)
ActiveOn(j) == {w \in Workers : workers[w].pc # "idle" /\ workers[w].job = j}

\* C1: an update_branch_merge asking for status merged or completed=true on a merge
\* that has a submit_gate job goes on to its UPDATE only if, at the check, a job is
\* completed with submit_gate_passed, no job is queued, running or staged and no
\* conflict is unresolved; otherwise it answers 409 and no row changes.
C1_SubmitGateEnforced ==
    [][\A m \in MergeIds, u \in MergeUpdateInputs :
          (OpUpdateMerge(m, u[1], u[2]) /\ (u[1] = "merged" \/ u[2] = "true")
             /\ HasGateJobIn(jobs, m))
          => IF GateOpenIn(jobs, conflicts, m)
             THEN op'.pc = "write" /\ op'.merge = m /\ op'.status = u[1]
             ELSE resp' = "409" /\ resp' \notin {"400", "404"} /\ op' = op /\ UNCHANGED db]_vars

\* Scenario B: the update to merged was refused while the submit_gate job is still queued
C1_Witness ==
    /\ resp = "409"
    /\ \E j \in JobIds : /\ jobs[j].job_type = "submit_gate"
                         /\ jobs[j].status = "queued"
                         /\ merges[jobs[j].merge].status \notin {"absent", "merged"}
                         /\ merges[jobs[j].merge].completed_at = NULL

\* C2: a run whose commit writes merged to a merge with a submit_gate job leaves a
\* state in which a job is completed and passed, no job is queued, running or
\* staged, and no conflict of the merge is unresolved.
C2_AutoFinalizeRespectsGate ==
    [][\A w \in Workers :
          (ExecCommit(w) /\ workers[w].mlock /\ workers[w].mrow.status = "merged"
             /\ HasGateJobIn(jobs', workers[w].merge))
          => GateOpenIn(jobs', conflicts', workers[w].merge)]_vars

\* C3: every period a job spends in queued is taken by at most one executor run,
\* whatever the number of invocations; an invocation that finds the job in
\* another status returns skipped and writes nothing.
C3_OneRunPerQueuedJob ==
    [][/\ \A j \in JobIds :
             runs'[j].done + Cardinality({w \in Workers : workers'[w].pc # "idle"
                                                          /\ workers'[w].job = j})
                <= runs'[j].queued
       /\ \A w \in Workers, j \in JobIds :
             (ExecStart(w, j) /\ jobs[j].status # "queued")
             => /\ resp' = "skipped"
                /\ UNCHANGED <<db, workers>>
                /\ runs'[j].done = runs[j].done]_vars

\* a job dispatched twice while queued: one run completed it, the other was skipped
C3_Witness ==
    /\ resp = "skipped"
    /\ \E j \in JobIds : /\ runs[j].sent = 2
                         /\ runs[j].queued = 1
                         /\ runs[j].done = 1
                         /\ runs[j].skipped = 1
                         /\ queue[j] = 0
                         /\ jobs[j].status = "completed"

\* C4: when the executor has completed every job of a non-cancelled merge with two
\* or more jobs (submit_gate jobs passed) and no run is in flight, the merge is merged.
C4_ConcurrentRunsFinalize ==
    \A m \in MergeIds :
       (/\ merges[m].status \notin {"absent", "cancelled"}
        /\ Cardinality(JobsOfIn(jobs, m)) >= 2
        /\ AllDoneIn(jobs, m)
        /\ \A j \in JobsOfIn(jobs, m) :
              runs[j].done >= 1 /\ jobs[j].completed_at = ExecNow /\ ActiveOn(j) = {})
       => merges[m].status = "merged"

\* C5: the completion reaction of a run decides to finalize exactly when, in the
\* rows it reads, the merge has a job, every job is completed and every
\* submit_gate job has passed; its UPDATE writes merged, keeping a completed_at
\* that is set, exactly when the merge is not cancelled; and the commit of the
\* run makes the merge merged exactly when both held.
C5_FinalizeIff ==
    [][\A w \in Workers :
          LET me == workers[w]
              m == me.merge
              seen == [j \in JobIds |-> IF j = me.job THEN me.row ELSE jobs[j]]
              cur == IF me.mlock THEN me.mrow ELSE merges[m]
          IN
          /\ ExecReact(w) => workers'[w].finalize = AllDoneIn(seen, m)
          /\ ExecFinalize(w) =>
                IF cur.status # "cancelled"
                THEN /\ workers'[w].mlock
                     /\ workers'[w].mrow.status = "merged"
                     /\ workers'[w].mrow.completed_at =
                           (IF cur.completed_at = NULL THEN ExecNow ELSE cur.completed_at)
                ELSE workers'[w].mlock = me.mlock /\ workers'[w].mrow = me.mrow
          /\ ExecCommit(w) =>
                /\ jobs'[me.job].status \in {"completed", "failed"}
                /\ IF me.finalize /\ me.mlock
                   THEN /\ merges'[m].status = "merged"
                        /\ merges'[m].completed_at # NULL
                        /\ merges[m].completed_at # NULL
                              => merges'[m].completed_at = merges[m].completed_at
                   ELSE /\ merges'[m].status = "merged" => merges[m].status = "merged"
                        /\ merges'[m].completed_at = merges[m].completed_at]_vars

\* a run has just finalized a merge whose completed_at an operator had set before
C5_Witness ==
    /\ resp = "completed"
    /\ \E m \in MergeIds : /\ merges[m].status = "merged"
                           /\ merges[m].completed_at = ApiNow
                           /\ AllDoneIn(jobs, m)
                           /\ \A j \in JobsOfIn(jobs, m) : jobs[j].completed_at = ExecNow

\* C6: after a committed step that changes the status of a job, a non-cancelled
\* merge whose jobs are all completed (submit_gate jobs passed) is merged.
C6_ReactionAfterEveryChange ==
    [][\A j \in JobIds :
          (jobs'[j].status # jobs[j].status
             /\ AllDoneIn(jobs', jobs'[j].merge)
             /\ merges'[jobs'[j].merge].status # "cancelled")
          => merges'[jobs'[j].merge].status = "merged"]_vars

\* C7: a run of an auto_integrate job fails the job exactly when it counts an
\* unresolved conflict of the merge; the failing run writes conflicted to the
\* merge unless the merge is cancelled, and a run that completes the job writes
\* no conflicted.
C7_AutoIntegrate ==
    [][\A w \in Workers :
          LET me == workers[w]
              m == me.merge
              n == Cardinality({c \in ConflictIds :
                                   conflicts[c].merge = m /\ ~conflicts[c].resolved})
              cur == IF me.mlock THEN me.mrow ELSE merges[m]
          IN
          /\ (ExecHandler(w) /\ me.job_type = "auto_integrate") =>
                /\ workers'[w].failing = (n > 0)
                /\ workers'[w].row.status = (IF n > 0 THEN "failed" ELSE "completed")
          /\ ExecConflict(w) =>
                IF cur.status # "cancelled"
                THEN workers'[w].mlock /\ workers'[w].mrow.status = "conflicted"
                ELSE workers'[w].mlock = me.mlock /\ workers'[w].mrow = me.mrow
          /\ (ExecCommit(w) /\ me.job_type = "auto_integrate") =>
                IF me.failing
                THEN /\ jobs'[me.job].status = "failed"
                     /\ me.mlock => merges'[m].status = "conflicted"
                     /\ ~me.mlock => merges'[m] = merges[m]
                ELSE /\ jobs'[me.job].status = "completed"
                     /\ merges'[m].status = "conflicted" => merges[m].status = "conflicted"]_vars

\* Scenario D: the auto_integrate job failed on an unresolved conflict, the merge is conflicted
C7_Witness ==
    /\ resp = "completed"
    /\ \E j \in JobIds : /\ jobs[j].job_type = "auto_integrate"
                         /\ jobs[j].status = "failed"
                         /\ merges[jobs[j].merge].status = "conflicted"
                         /\ ~NoneUnresolvedIn(conflicts, jobs[j].merge)

\* C8: a job id is with the dispatcher or a worker only if its row is committed,
\* and a job has been handed over no more often than a commit wrote it as queued.
C8_DispatchAfterCommit ==
    \A j \in JobIds :
       /\ runs[j].sent <= runs[j].wrote
       /\ (queue[j] > 0 \/ ActiveOn(j) # {}) => jobs[j].status # "absent"
       /\ jobs[j].status = "absent" => runs[j].sent = 0

\* a job handed over by create and again by a re-queueing update, still queued
C8_Witness ==
    \E j \in JobIds : /\ runs[j].sent = 2
                      /\ runs[j].wrote = 2
                      /\ queue[j] = 2
                      /\ jobs[j].status = "queued"

\* C9: a run that raises leaves every committed row as it was: the job row is the
\* one the run found (logs, submit_gate_passed), the merge rows are untouched,
\* and the caller gets the exception; no write of a run is visible before its commit.
C9_RaiseRollsBack ==
    [][/\ \A w \in Workers :
             ExecRaise(w) =>
                /\ jobs'[workers[w].job] = workers[w].before
                /\ jobs'[workers[w].job].logs = jobs[workers[w].job].logs
                /\ jobs'[workers[w].job].passed = jobs[workers[w].job].passed
                /\ merges' = merges
                /\ conflicts' = conflicts
                /\ resp' = "raised"
       /\ \A w \in Workers :
             workers'[w].pc # "idle" => jobs'[workers'[w].job] = workers'[w].before]_vars

\* a run of a dispatched job raised: the job is queued with no log line and no message left
C9_Witness ==
    /\ resp = "raised"
    /\ \E j \in JobIds : /\ runs[j].sent = 1
                         /\ queue[j] = 0
                         /\ runs[j].done = 0
                         /\ jobs[j].logs = <<>>
                         /\ ~jobs[j].passed

C11_SkippedRunChangesNothing ==
    [][\A w \in Workers, j \in JobIds :
          ((ExecStart(w, j) \/ ExecUnknown(w, j)) /\ jobs[j].status # "queued")
          => /\ resp' = "skipped"
             /\ jobs' = jobs
             /\ merges' = merges
             /\ conflicts' = conflicts
             /\ workers' = workers
             /\ runs'[j].done = runs[j].done]_vars

\* a job the API completed while its message was waiting: the run was skipped and
\* the row still carries the API's timestamps and no log line
C11_Witness ==
    /\ resp = "skipped"
    /\ \E j \in JobIds : /\ jobs[j].status = "completed"
                         /\ jobs[j].completed_at = ApiNow
                         /\ jobs[j].logs = <<>>
                         /\ runs[j].skipped = 1
                         /\ runs[j].done = 0
                         /\ queue[j] = 0

\* C12: a committed job row whose status is completed or failed keeps that status
\* in every step.
C12_TerminalStatusIsFinal ==
    [][\A j \in JobIds :
          jobs[j].status \in {"completed", "failed"} => jobs'[j].status = jobs[j].status]_vars

\* a step of the executor
ExecStep ==
    \E w \in Workers :
       \/ \E j \in JobIds : ExecStart(w, j) \/ ExecUnknown(w, j)
       \/ ExecHandler(w) \/ ExecReact(w) \/ ExecFinalize(w) \/ ExecConflict(w)
       \/ ExecCommit(w) \/ ExecRaise(w)

\* C13: a step of the executor that changes a committed job row is the commit of
\* the run on that job; the row was queued and becomes completed or failed (never
\* running, staged or queued); failed only for auto_integrate; a submit_gate job
\* becomes completed with submit_gate_passed, any other type completed.
C13_ExecutorTransitions ==
    [][ExecStep =>
          \A j \in JobIds :
             jobs'[j] # jobs[j] =>
                /\ \E w \in Workers : ExecCommit(w) /\ workers[w].job = j
                /\ jobs[j].status = "queued"
                /\ jobs'[j].status \in {"completed", "failed"}
                /\ jobs'[j].status = "failed" => jobs[j].job_type = "auto_integrate"
                /\ jobs[j].job_type = "submit_gate" =>
                      jobs'[j].status = "completed" /\ jobs'[j].passed
                /\ jobs[j].job_type \notin {"auto_integrate", "submit_gate"} =>
                      jobs'[j].status = "completed"
                /\ jobs'[j].job_type = jobs[j].job_type /\ jobs'[j].merge = jobs[j].merge]_vars

\* a re-queued conflict_staging job went through the no-op handler and is completed
C13_Witness ==
    \E j \in JobIds : /\ jobs[j].job_type = "conflict_staging"
                      /\ jobs[j].status = "completed"
                      /\ jobs[j].logs = <<LogNoop>>
                      /\ jobs[j].completed_at = ExecNow
                      /\ runs[j].done = 1

\* C14: no step of the executor changes the row of a merge whose committed
\* status is cancelled, and no run holds a write to such a row.
C14_CancelledUntouched ==
    [][/\ ExecStep =>
             \A m \in MergeIds : merges[m].status = "cancelled" => merges'[m] = merges[m]
       /\ \A w \in Workers :
             (workers'[w].mlock /\ ~workers[w].mlock)
             => merges[workers'[w].merge].status # "cancelled"]_vars

\* a run completed the last job of a cancelled merge: every job is completed and
\* passed, and the merge is still cancelled
C14_Witness ==
    /\ resp = "completed"
    /\ \E m \in MergeIds : /\ merges[m].status = "cancelled"
                           /\ AllDoneIn(jobs, m)
                           /\ \E j \in JobsOfIn(jobs, m) :
                                 runs[j].done = 1 /\ jobs[j].completed_at = ExecNow

\* the job rows of unit of work rq that have the given type and status
RowsOf(rq, job_type, status) ==
    {j \in rq.touched : /\ rq.rows[j].job_type = job_type
                        /\ rq.rows[j].status = status
                        /\ rq.rows[j].merge = rq.merge
                        /\ ~rq.rows[j].passed
                        /\ rq.rows[j].logs = <<>>}
Count(b) == IF b THEN 1 ELSE 0

C16_NoGateJobNoCheck ==
    [][/\ \A m \in MergeIds, u \in MergeUpdateInputs :
             (/\ OpUpdateMerge(m, u[1], u[2])
              /\ (u[1] = "merged" \/ u[2] = "true")
              /\ merges[m].status # "absent"
              /\ ~HasGateJobIn(jobs, m))
             => /\ op'.pc = "write" /\ op'.merge = m
                /\ op'.status = u[1] /\ op'.completed = u[2]
                /\ resp' = resp
       /\ (OpWrite /\ merges[op.merge].status # "absent") =>
             /\ resp' = "200"
             /\ op.status # NULL => merges'[op.merge].status = op.status
             /\ op.completed = "true" => merges'[op.merge].completed_at = ApiNow]_vars

\* an operator set a merge to merged while its auto_integrate job is still queued
\* and a conflict is unresolved; the merge has no submit_gate job
C16_Witness ==
    /\ resp = "200"
    /\ \E m \in MergeIds :
          /\ merges[m].status = "merged"
          /\ merges[m].completed_at = ApiNow
          /\ ~HasGateJobIn(jobs, m)
          /\ ~NoneOutstandingIn(jobs, m)
          /\ ~NoneUnresolvedIn(conflicts, m)

\* C17 as claimed: an update_branch_merge asking for merged or conflicted while a
\* job of the merge is queued, running or staged is rejected and changes nothing.
C17_NoTerminalWhileOutstanding ==
    [][/\ \A m \in MergeIds, u \in MergeUpdateInputs :
             (/\ OpUpdateMerge(m, u[1], u[2])
              /\ u[1] \in {"merged", "conflicted"}
              /\ ~NoneOutstandingIn(jobs, m))
             => resp' \in {"400", "409"} /\ op' = op /\ UNCHANGED db
       /\ (OpWrite /\ op.status \in {"merged", "conflicted"}
              /\ ~NoneOutstandingIn(jobs, op.merge))
             => merges' = merges]_vars

\* C17 as amended: while a job of the merge is outstanding at the check, an update
\* asking for merged or completed=true is rejected with 409 exactly when the merge
\* has a submit_gate job; without one, and for an update to conflicted, the
\* request goes on to its UPDATE.
C17_OutstandingBlocksGatedMerge ==
    [][\A m \in MergeIds, u \in MergeUpdateInputs :
          (/\ OpUpdateMerge(m, u[1], u[2])
           /\ merges[m].status # "absent"
           /\ ~NoneOutstandingIn(jobs, m)
           /\ u[1] \in {"merged", "conflicted"} \/ u[2] = "true")
          => IF (u[1] = "merged" \/ u[2] = "true") /\ HasGateJobIn(jobs, m)
             THEN resp' = "409" /\ op' = op /\ UNCHANGED db
             ELSE /\ op'.pc = "write" /\ op'.merge = m /\ op'.status = u[1]
                  /\ resp' = resp]_vars

\* a submit_gate job has completed and passed, another job is still outstanding,
\* and the update to merged was answered 409
C17_Witness ==
    /\ resp = "409"
    /\ op.pc = "idle"
    /\ \E m \in MergeIds :
          /\ merges[m].status \notin {"absent", "merged"}
          /\ GatePassedIn(jobs, m)
          /\ NoneUnresolvedIn(conflicts, m)
          /\ ~NoneOutstandingIn(jobs, m)

\* C18: every step that makes a merge merged leaves its completed_at set.
C18_MergedHasCompletedAt ==
    [][\A m \in MergeIds :
          (merges'[m].status = "merged" /\ merges[m].status # "merged")
          => merges'[m].completed_at # NULL]_vars


\* ------------------------------------------------------ changelist claims
DesiredStatus(status) == IF status = NULL THEN "submitted" ELSE status

\* a submit request with a supported desired status on an existing changelist
SubmitStep(c, i) ==
    /\ DesiredStatus(i[1]) \in CHANGELIST_SUBMIT_STATUSES
    /\ changelists[c].status # "absent"
    /\ submit_changelist(c, i[1], i[2])

SubmitUntouched(c) ==
    /\ changelists'[c].status = changelists[c].status
    /\ changelists'[c].submitted_at = changelists[c].submitted_at
    /\ changelists'[c].submitter_notes = changelists[c].submitter_notes

\* C19 (as stated): submit succeeds if and only if the changelist's status is
\* open or pending_review, its target branch is set and it has at least one
\* item; otherwise it fails and status, submitted_at and notes are unchanged.
C19_SubmitIffEditable ==
    [][\A c \in ChangelistIds, i \in ChangelistSubmitInputs :
          SubmitStep(c, i) =>
             /\ (resp' = "200") <=>
                   /\ changelists[c].status \in {"open", "pending_review"}
                   /\ changelists[c].target_branch_id # NoBranch
                   /\ item_count(c) >= 1
             /\ resp' # "200" => SubmitUntouched(c)]_vars

\* C19 (amended): submit succeeds if and only if the changelist's status is
\* open, pending_review or already the desired status, its target branch is set
\* and it has at least one item; otherwise it fails, for the status first, then
\* for the missing target branch, then for the missing items, and status,
\* submitted_at and notes are unchanged.
C19_SubmitIffEditableOrDesired ==
    [][\A c \in ChangelistIds, i \in ChangelistSubmitInputs :
          SubmitStep(c, i) =>
             LET statusOk == \/ changelists[c].status \in {"open", "pending_review"}
                             \/ changelists[c].status = DesiredStatus(i[1])
                 targetOk == changelists[c].target_branch_id # NoBranch
                 itemsOk == item_count(c) >= 1
             IN /\ (resp' = "200") <=> (statusOk /\ targetOk /\ itemsOk)
                /\ ~statusOk => resp' = "400 Changelist already finalized"
                /\ statusOk /\ ~targetOk => resp' = "400 Target branch is required before submit"
                /\ statusOk /\ targetOk /\ ~itemsOk =>
                      resp' = "400 Changelist must include at least one asset version"
                /\ resp' # "200" => SubmitUntouched(c)
                /\ resp' = "200" => changelists'[c].status = DesiredStatus(i[1])]_vars

\* an open changelist with a target branch and an item has been submitted
C19_Witness ==
    /\ submit_before.status = "open"
    /\ resp = "200"
    /\ \E c \in ChangelistIds :
          /\ changelists[c].status \in CHANGELIST_SUBMIT_STATUSES
          /\ changelists[c].target_branch_id # NoBranch
          /\ changelists[c].submitted_at = changelists[c].updated_at
          /\ item_count(c) >= 1

\* C20: a submit whose desired status is the changelist's current status is
\* not rejected for the status; submitting a submitted changelist that has a
\* target branch and an item as submitted succeeds, keeps the status, and
\* writes a new submitted_at and the request's submitter_notes.
C20_ResubmitSucceeds ==
    [][\A c \in ChangelistIds, i \in ChangelistSubmitInputs :
          (SubmitStep(c, i) /\ changelists[c].status = DesiredStatus(i[1])) =>
             /\ resp' # "400 Changelist already finalized"
             /\ (changelists[c].status = "submitted"
                   /\ changelists[c].target_branch_id # NoBranch /\ item_count(c) >= 1) =>
                   /\ resp' = "200"
                   /\ changelists'[c].status = "submitted"
                   /\ changelists'[c].submitted_at = clock
                   /\ changelists'[c].submitted_at # changelists[c].submitted_at
                   /\ changelists'[c].submitter_notes = i[2]]_vars

\* a submitted changelist has been submitted again with other notes
C20_Witness ==
    /\ submit_before.status = "submitted"
    /\ \E c \in ChangelistIds :
          /\ changelists[c].status = "submitted"
          /\ changelists[c].submitted_at > submit_before.submitted_at
          /\ changelists[c].submitter_notes # submit_before.submitter_notes
          /\ changelists[c].submitted_at = changelists[c].updated_at

\* C21: the items of a changelist change only while its status is open or
\* pending_review; on a submitted or cancelled changelist add-item and
\* remove-item fail and leave the items as they were.
C21_ItemsChangeOnlyWhileEditable ==
    [][\A c \in ChangelistIds :
          changelist_items'[c] # changelist_items[c] =>
             changelists[c].status \in {"open", "pending_review"}]_vars

\* the item of changelist c for asset version av, in the rows given
ItemsFor(rows, av) == {r \in rows : r.asset_version_id = av}

\* C22: adding an item whose (changelist, asset version) pair already exists
\* creates no second item: the item count is unchanged, the item keeps its id,
\* every other item is untouched, and the item's action and target branch are
\* the request's (no target branch in the request clears it); so adding the
\* same item again leaves id, action and target branch of every item as they are.
C22_ReaddUpserts ==
    [][\A c \in ChangelistIds, i \in ChangelistItemInputs :
          (ItemsFor(changelist_items[c], i[1]) # {}
              /\ add_changelist_item(c, i[1], i[2], i[3]) /\ resp' = "201") =>
             /\ item_count(c)' = item_count(c)
             /\ Cardinality(ItemsFor(changelist_items'[c], i[1])) = 1
             /\ {r \in changelist_items'[c] : r.asset_version_id # i[1]}
                   = {r \in changelist_items[c] : r.asset_version_id # i[1]}
             /\ \A r \in ItemsFor(changelist_items'[c], i[1]) :
                   /\ r.id \in {o.id : o \in ItemsFor(changelist_items[c], i[1])}
                   /\ r.action = i[2]
                   /\ r.target_branch_id = i[3]
             /\ (\A o \in ItemsFor(changelist_items[c], i[1]) :
                    o.action = i[2] /\ o.target_branch_id = i[3]) =>
                   {[id |-> r.id, asset_version_id |-> r.asset_version_id, action |-> r.action,
                     target_branch_id |-> r.target_branch_id] : r \in changelist_items'[c]}
                   = {[id |-> r.id, asset_version_id |-> r.asset_version_id,
                       action |-> r.action, target_branch_id |-> r.target_branch_id] :
                         r \in changelist_items[c]}]_vars

\* an item has been added again with another action and a target branch, and
\* a second item stands beside it
C22_Witness ==
    \E c \in ChangelistIds :
       /\ resp = "201"
       /\ item_count(c) = 2
       /\ \E r \in changelist_items[c] :
             /\ r.created_at = changelists[c].updated_at
             /\ r.id < r.created_at
             /\ r.action = "integrate"
             /\ r.target_branch_id = 1

\* --------------------------------------------------------- lock claims
LocksOn(a) == {l \in asset_locks : l.asset_id = a}
LastLocker(a) ==
    LET locks == {k \in 1..Len(lock_history[a]) : lock_history[a][k][1] = "lock"} IN
    IF locks = {} THEN 0
    ELSE lock_history[a][CHOOSE k \in locks : \A n \in locks : n <= k][2]

\* C23: after any sequence of lock and release requests an asset has at most
\* one lock, and the lock's locked_by is the user of the most recent successful
\* lock request on the asset, also when the asset was locked by another user.
C23_OneLockLastWriterWins ==
    \A a \in AssetIds :
       /\ Cardinality(LocksOn(a)) <= 1
       /\ \A l \in LocksOn(a) : l.locked_by = LastLocker(a)

\* two users locked the asset one after the other and the second holds it
C23_Witness ==
    \E a \in AssetIds :
       /\ Len(lock_history[a]) >= 2
       /\ LET n == Len(lock_history[a]) IN
             /\ lock_history[a][n - 1][1] = "lock"
             /\ lock_history[a][n][1] = "lock"
             /\ lock_history[a][n - 1][2] # lock_history[a][n][2]
             /\ \E l \in LocksOn(a) : l.locked_by = lock_history[a][n][2] /\ l.id < l.locked_at

\* C24: a user who is not an admin cannot remove another user's lock or shelf:
\* the release, whatever the lock's expires_at, and the shelf deletion are
\* refused as forbidden and leave the lock or shelf as it was; the owner or an
\* admin removes it.
C24_OnlyOwnerOrAdminRemoves ==
    [][/\ \A u \in Users, a \in AssetIds :
             (LocksOn(a) # {} /\ release_lock(u, a)) =>
                IF UserRole(u) # "admin" /\ \A l \in LocksOn(a) : l.locked_by # u
                THEN /\ resp' = "403 Cannot release lock you do not own"
                     /\ asset_locks' = asset_locks
                ELSE resp' = "204" /\ LocksOn(a)' = {}
       /\ \A u \in Users, sh \in ShelfIds :
             (ShelfExists(sh) /\ delete_shelf(u, sh)) =>
                IF UserRole(u) # "admin" /\ shelves[sh].created_by # u
                THEN /\ resp' = "403 Cannot delete shelf you do not own"
                     /\ shelves' = shelves
                ELSE resp' = "204" /\ ~ShelfExists(sh)']_vars

\* a release of another user's lock, one whose expires_at is past, was refused
C24_Witness ==
    /\ resp = "403 Cannot release lock you do not own"
    /\ \E l \in asset_locks :
          /\ l.expires_at # NoStamp
          /\ l.expires_at < clock
          /\ \A a \in AssetIds \ {l.asset_id} : LocksOn(a) = {}

\* -------------------------------------------------------- more merge claims
\* C25: when an API operation returns an error to its caller, nothing the
\* operation wrote is in the store: here, a create_branch_merge or
\* create_merge_job that ends with a 4xx or 5xx answer has left no merge row
\* and no job row of its own behind.
C25_ErrorLeavesStoreUntouched ==
    [][(req.pc # "idle" /\ req'.pc = "idle" /\ resp' \in {"400", "404", "409", "500"}) =>
          /\ req.kind = "create_branch_merge" => merges'[req.merge].status = "absent"
          /\ req.kind \in {"create_branch_merge", "create_merge_job"} =>
                \A j \in req.touched : jobs'[j].status = "absent"]_vars

MergeBranchesOk(row) ==
    /\ row.source_branch_id # row.target_branch_id
    /\ BranchProject(row.source_branch_id) = row.project_id
    /\ BranchProject(row.target_branch_id) = row.project_id

\* C27: every merge has a source branch other than its target branch, both of
\* the merge's project; a create-merge request that breaks this is answered
\* with an error (404 for an unknown branch, else 400) and creates no merge and
\* no job; no step changes the branches or the project of a merge.
C27_MergeBranchesValid ==
    /\ [](\A m \in MergeIds : merges[m].status # "absent" => MergeBranchesOk(merges[m]))
    /\ [][/\ \A c \in MergeCreateInputs :
                (ReqCreateMerge(c[1], c[2], c[3], c[4], c[5], c[6])
                    /\ ~MergeBranchesOk([project_id |-> c[1], source_branch_id |-> c[2],
                                         target_branch_id |-> c[3]])) =>
                   /\ resp' = IF c[2] # c[3] /\ (BranchProject(c[2]) = 0 \/ BranchProject(c[3]) = 0)
                              THEN "404" ELSE "400"
                   /\ UNCHANGED <<merges, jobs, req>>
          /\ \A m \in MergeIds :
                merges[m].status # "absent" =>
                   /\ merges'[m].project_id = merges[m].project_id
                   /\ merges'[m].source_branch_id = merges[m].source_branch_id
                   /\ merges'[m].target_branch_id = merges[m].target_branch_id]_vars

\* a merge from branch 2 to branch 1 exists and has been updated since, and a
\* later request was refused
C27_Witness ==
    /\ resp \in {"400", "404"}
    /\ \E m \in MergeIds :
          /\ merges[m].status \notin {"absent", DefaultMergeStatus}
          /\ merges[m].source_branch_id = 2
          /\ merges[m].target_branch_id = 1

\* ------------------------------------------------------------ shelf claims
LinkedShelves == {sh \in ShelfIds : shelves[sh].changelist_id # 0}

\* C28: a shelf linked to a changelist has the changelist's workspace; a link
\* is made, by create_shelf or by create_changelist, only to a changelist that
\* is open or pending_review; a linking request that breaks either condition
\* fails and makes neither a shelf nor a link.
C28_ShelfLinkValid ==
    /\ [](\A sh \in LinkedShelves :
             changelists[shelves[sh].changelist_id].workspace_id = shelves[sh].workspace_id)
    /\ [][/\ \A sh \in ShelfIds :
                (shelves'[sh].changelist_id # 0
                    /\ shelves'[sh].changelist_id # shelves[sh].changelist_id) =>
                   changelists'[shelves'[sh].changelist_id].status
                      \in {"open", "pending_review"}
          /\ \A i \in ShelfCreateInputs :
                (i[3] # 0 /\ create_shelf(i[1], i[2], i[3])
                    /\ \/ i[3] \notin ChangelistIds
                       \/ changelists[i[3]].workspace_id # i[2]
                       \/ changelists[i[3]].status \notin {"open", "pending_review"}) =>
                   /\ resp' \notin {"201", "200", "204"}
                   /\ UNCHANGED <<shelves, changelists>>
          /\ \A i \in ChangelistCreateInputs :
                (i[4] # 0 /\ create_changelist(i[1], i[2], i[3], i[4])
                    /\ \/ ~ShelfExists(i[4])
                       \/ shelves[i[4]].workspace_id # i[2]) =>
                   /\ resp' \notin {"201", "200", "204"}
                   /\ UNCHANGED <<shelves, changelists>>]_vars

\* a shelf is linked to a changelist of its workspace
C28_Witness ==
    \E sh \in LinkedShelves :
       /\ changelists[shelves[sh].changelist_id].workspace_id = shelves[sh].workspace_id
       /\ shelves[sh].created_at >= 2

IsPrefix(s, t) == Len(s) <= Len(t) /\ \A k \in 1..Len(s) : s[k] = t[k]

\* C29: a job's logs are append-only: whatever step touches a job, an executor
\* run or an update-job request, the log text the job had is a prefix of the
\* log text it has afterwards.
C29_LogsAppendOnly ==
    [][\A j \in JobIds :
          jobs[j].status # "absent" => IsPrefix(jobs[j].logs, jobs'[j].logs)]_vars

\* C30: creating, resolving or un-resolving a merge conflict changes no merge
\* and no job, whatever the merge's status: the step writes the conflict row
\* and nothing else of the store, the queue or the running jobs.
C30_ConflictWritesOnlyConflicts ==
    [][((\E m \in MergeIds : create_merge_conflict(m))
          \/ (\E c \in ConflictIds, r \in TriState : update_merge_conflict(c, r))) =>
             UNCHANGED <<merges, jobs, queue, workers, op, req>>]_vars

\* a conflict of a merge that is no longer pending has been resolved
C30_Witness ==
    \E c \in ConflictIds :
       /\ conflicts[c].merge # 0
       /\ conflicts[c].resolved
       /\ merges[conflicts[c].merge].status \in {"merged", "conflicted", "cancelled"}
       /\ resp = "200"

\* C26: inline dispatch gives the API results and final states of asynchronous
\* dispatch with a worker running each job as it is enqueued, also when a run
\* raises: as there, a request that has committed answers 200 and has had every
\* job it queued run.
C26_InlineAsAsync ==
    [][(req.pc \in {"dispatch", "inline"} /\ req'.pc = "idle") =>
          /\ resp' = "200"
          /\ Len(req.toq) = 1]_vars

C32_GateCheckAndWriteAtomic ==
    [][(/\ OpWrite
        /\ op.status = "merged"
        /\ merges'[op.merge].status = "merged"
        /\ op.gate_jobs > 0)
       => /\ NoneUnresolvedIn(conflicts, op.merge)
          /\ NoneOutstandingIn(jobs, op.merge)]_vars

C34_MergedStaysMergedUnderRuns ==
    [][\A m \in MergeIds :
          ((\E w \in Workers : ExecCommit(w)) /\ merges[m].status = "merged")
          => merges'[m].status = "merged"]_vars

\* C35: the commit of an executor run changes no job that is staged, and it moves
\* no merge to merged while a job of that merge is staged.
C35_StagedBlocksExecutor ==
    [][(\E w \in Workers : ExecCommit(w))
       => /\ \A j \in JobIds : jobs[j].status = "staged" => jobs'[j] = jobs[j]
          /\ \A m \in MergeIds :
                (merges[m].status # "merged" /\ merges'[m].status = "merged")
                => \A j \in JobsOfIn(jobs, m) : jobs[j].status # "staged"]_vars

\* C36: every committed job with submit_gate_passed set is a submit_gate job, and
\* an update_merge_job that asks for submit_gate_passed = true on a job of another
\* type is answered 400 and writes nothing.
C36_PassedOnlyOnGateJobs ==
    /\ [](\A j \in JobIds : jobs[j].passed => jobs[j].job_type = "submit_gate")
    /\ [][\A j \in JobIds, u \in JobUpdateInputs :
             (/\ ReqUpdateJob(j, u[1], u[2], u[3])
              /\ u[2] = "true"
              /\ jobs[j].status # "absent"
              /\ jobs[j].job_type # "submit_gate")
             => resp' = "400" /\ UNCHANGED <<db, req, queue>>]_vars

\* a submit_gate job passed by its run, next to a job of another type on which an
\* update has just been refused
C36_Witness ==
    /\ resp = "400"
    /\ req.pc = "idle"
    /\ \E j \in JobIds : jobs[j].job_type = "submit_gate" /\ jobs[j].passed /\ runs[j].done > 0
    /\ \E j \in JobIds : jobs[j].job_type = "auto_integrate" /\ ~jobs[j].passed

\* C37: no step takes a shelf that is linked to a changelist to a link with
\* another changelist.
C37_ShelfLinkNeverChanges ==
    [][\A s \in ShelfIds :
          (shelves[s].changelist_id # 0 /\ shelves'[s].changelist_id # 0)
          => shelves'[s].changelist_id = shelves[s].changelist_id]_vars
\* C38: a changelist's status only advances along open -> pending_review ->
\* submitted: no step takes a submitted changelist to open or pending_review, or
\* a pending_review changelist to open
C38_StatusOnlyAdvances ==
    [][\A c \in ChangelistIds :
          /\ changelists[c].status = "submitted" => changelists'[c].status = "submitted"
          /\ changelists[c].status = "pending_review" => changelists'[c].status # "open"]_vars

====
